---- MODULE Spec2Model ----
(***************************************************************************)
(* The fantasy-football dashboard of src/streamlit_app.py, in parts, each  *)
(* with its own specification:                                             *)
(*   Spec, SpecRerun   the lineup optimizer (build_optimizer) and the      *)
(*                     Margin rows of the Optimizer tab                    *)
(*   SpecApp           the optimizer under the sidebar's slot order        *)
(*   SpecResolver      the projection resolver (get_proj_week)             *)
(*   SpecFreeAgent     the verdict loop of the Free Agents tab             *)
(*   SpecDrop          the drop candidate taken from the optimizer's bench *)
(*   SpecWhatIf        the What-If tab                                     *)
(*   SpecTrade         the trade analyzer and trade_summary_verdict        *)
(*   SpecRun           one run of the script with its upstream calls       *)
(*   SpecLog           the performance log, one operator                   *)
(*   SpecLogRace       the performance log, two runs at once               *)
(* A specification runs one part and holds the variables of the others at  *)
(* their idle values.                                                      *)
(*                                                                         *)
(* Lineup optimizer.  A roster is a sequence of players; a player is       *)
(* identified by its index in the roster (the code keeps player objects in *)
(* a set, by identity).  A player carries its position string and the      *)
(* value get_proj_week returns for it while the projection source, the     *)
(* projection tables and the current week stay unchanged.  The requirement *)
(* map is a sequence of <<slot, count>> pairs with distinct slots: a dict  *)
(* in insertion order.                                                     *)
(***************************************************************************)
EXTENDS Integers, Sequences, FiniteSets, TLC

\* ---------------------------------------------------------------- bounds
\* longest roster, highest weekly projection, highest required count
MaxRoster == 2
MaxProj == 1
MaxCount == 1

\* ------------------------------------------------------- program constants
\* keys of the groups dict, in the order the dict literal lists them
GroupKeys == <<"QB", "RB", "WR", "TE", "D/ST", "K", "FLEX">>
\* the positions whose buckets are appended to the FLEX bucket, in that order
FlexSources == <<"RB", "WR", "TE">>

Range(s) == {s[i] : i \in DOMAIN s}
Slots == Range(GroupKeys)

\* ------------------------------------------------------------ input domains
\* Position strings of the roster players.  The code treats QB, D/ST and K
\* alike (keys of groups that feed no other bucket), so QB stands for the
\* three; "FLEX" is a key of groups that is no position of the league, and
\* "P" is a string that is no key of groups.
PlayerPositions == {"QB", "RB", "WR", "TE", "FLEX", "P"}
\* Keys of the requirement maps: FLEX, a slot that shares players with it and
\* a slot that does not.
MapSlots == {"QB", "RB", "FLEX"}

Players == [position : PlayerPositions, proj : 0..MaxProj]
Rosters == UNION {[1..n -> Players] : n \in 0..MaxRoster}
\* requirement maps of no, one or two keys, in every insertion order
MapEntries == MapSlots \X (0..MaxCount)
SlotMaps ==
    {<<>>} \cup {<<a>> : a \in MapEntries}
           \cup {<<ab[1], ab[2]>> :
                    ab \in {e \in MapEntries \X MapEntries : e[1][1] # e[2][1]}}

\* roster, starting_slots: the arguments of build_optimizer
\* groups, used, lineup, bench: its locals and its result
\* pc, next_slot: where the call stands; prev: the result of the call before
VARIABLES roster, starting_slots, groups, used, lineup, bench, pc, next_slot, prev
optimizerVars ==
    <<roster, starting_slots, groups, used, lineup, bench, pc, next_slot, prev>>

\* player, proj_source, fp_weekly: what one call of get_proj_week reads (its
\* argument and the two module globals); outcome: how the call ended
VARIABLES player, proj_source, fp_weekly, outcome
resolverVars == <<player, proj_source, fp_weekly, outcome>>

\* fa, drop_cand, weekly_threshold, ros_threshold, starters_by_pos,
\* flex_starters: what one pass of the free-agent loop reads (the candidate,
\* what _lowest_bench_candidate returned for it, the two number inputs, the
\* starters of the optimized lineup by position and lineup["FLEX"]);
\* fa_row: the table row the pass appended
VARIABLES fa, drop_cand, weekly_threshold, ros_threshold, starters_by_pos,
          flex_starters, fa_row
freeAgentVars ==
    <<fa, drop_cand, weekly_threshold, ros_threshold, starters_by_pos,
      flex_starters, fa_row>>

\* send_A, send_B: the players each team sends in the trade analyzer;
\* trade: the net gains, verdicts and scores it displays
VARIABLES send_A, send_B, trade
tradeVars == <<send_A, send_B, trade>>

\* one run of the script from top to bottom.  espn_s2, swid: the two
\* credentials read from the secrets; run_pc: the statement the run stands
\* at; league: the League client; optimizer_ran: build_optimizer was called;
\* fa_pos: index of the free-agent loop; espn_counts: its per-position
\* result; performance_log: the rows of performance_log.csv; raised: the
\* upstream calls that raised; messages: the st.error / st.warning shown
VARIABLES espn_s2, swid, run_pc, league, optimizer_ran, fa_pos, espn_counts,
          performance_log, raised, messages
runVars ==
    <<espn_s2, swid, run_pc, league, optimizer_ran, fa_pos, espn_counts,
      performance_log, raised, messages>>

runStepVars ==
    <<espn_s2, swid, run_pc, league, optimizer_ran, fa_pos, espn_counts,
      raised, messages>>

\* the operator's "Log This Week" actions.  team_name: my_team.team_name;
\* log_before: the file when the first action began; logged: the actions
\* done; sessions: the script runs that are inside the button's block, each
\* with its position, its new row and the frame it read
VARIABLES team_name, log_before, logged, sessions
logVars == <<team_name, log_before, logged, sessions>>

\* what the tabs make of the optimizer's result.  rows: the "Margin" rows of
\* the Optimizer tab; dropped, hypo_roster, cur_lineup, new_lineup: the
\* locals drop, hypo_roster, cur_lineup and new_lineup of the What-If tab
\* (dropped is the place of the player in the roster, 0 for None) and the
\* choice of its "Who would you drop?" box, drop_sel (0 for "(auto choose
\* best drop)", otherwise the place of the player named; 0 also for
\* None)
VARIABLES rows, drop_sel, dropped, hypo_roster, cur_lineup, new_lineup
tabVars == <<rows, drop_sel, dropped, hypo_roster, cur_lineup, new_lineup>>

vars ==
    <<optimizerVars, resolverVars, freeAgentVars, tradeVars, runVars, logVars,
      tabVars>>

\* the parts of the page that are not running: each specification runs one
\* part and holds the variables of the others at these values
NoPlayer == [position |-> "", name |-> <<>>,
             stats |-> [has_week |-> FALSE, projected |-> 0],
             projected_points |-> 0]
NoOutcome == [returned |-> FALSE, raised |-> FALSE, value |-> 0]
ResolverCallIdle ==
    /\ player = NoPlayer
    /\ fp_weekly = <<>>
    /\ outcome = NoOutcome
ResolverIdle ==
    /\ ResolverCallIdle
    /\ proj_source = "FantasyPros fallback"
OptimizerIdle ==
    /\ roster = <<>>
    /\ starting_slots = <<>>
    /\ groups = [key \in Slots |-> <<>>]
    /\ used = {}
    /\ lineup = <<>>
    /\ bench = <<>>
    /\ pc = "idle"
    /\ next_slot = 1
    /\ prev = [returned |-> FALSE, lineup |-> <<>>, bench |-> <<>>]
NoRow == [appended |-> FALSE, verdict |-> "", would_start |-> FALSE,
          delta_w |-> 0, delta_re |-> 0, delta_rf |-> 0]
FreeAgentIdle ==
    /\ fa = [position |-> "", w |-> 0, re |-> 0, rf |-> 0]
    /\ drop_cand = [present |-> FALSE, w |-> 0, re |-> 0, rf |-> 0]
    /\ weekly_threshold = 0
    /\ ros_threshold = 0
    /\ starters_by_pos = <<>>
    /\ flex_starters = <<>>
    /\ fa_row = NoRow
NoScore == [num |-> 0, rounding |-> 0]
NoTrade == [shown |-> FALSE,
            A_gain_wk |-> 0, A_gain_rosE |-> 0, A_gain_rosF |-> 0,
            B_gain_wk |-> 0, B_gain_rosE |-> 0, B_gain_rosF |-> 0,
            a_verdict |-> "", a_score |-> NoScore,
            b_verdict |-> "", b_score |-> NoScore]
TradeIdle ==
    /\ send_A = <<>>
    /\ send_B = <<>>
    /\ trade = NoTrade
\* performance_log.csv: whether it exists, its header and its rows, each row
\* the texts of its cells in the order of the header
NoFile == [exists |-> FALSE, columns |-> <<>>, rows |-> <<>>]
\* the log before the run: one row logged under the default source
PriorLog ==
    [exists |-> TRUE,
     columns |-> <<"Week", "Team", "Projected (Weekly: FantasyPros fallback)",
                   "Projected (ROS ESPN)", "Projected (ROS FP)", "Points">>,
     rows |-> << <<"1", "Bears", "12.5", "0.0", "0.0", "0.0">> >>]
NoMarginRows == [built |-> FALSE, list |-> <<>>]
TabIdle ==
    /\ rows = NoMarginRows
    /\ drop_sel = 0
    /\ dropped = 0
    /\ hypo_roster = <<>>
    /\ cur_lineup = <<>>
    /\ new_lineup = <<>>
LogIdle ==
    /\ team_name = ""
    /\ log_before = NoFile
    /\ logged = 0
    /\ sessions = <<>>
RunStepIdle ==
    /\ espn_s2 = ""
    /\ swid = ""
    /\ run_pc = "idle"
    /\ league = "none"
    /\ optimizer_ran = FALSE
    /\ fa_pos = 1
    /\ espn_counts = <<>>
    /\ raised = {}
    /\ messages = {}
RunIdle ==
    /\ RunStepIdle
    /\ performance_log = PriorLog
\* the variables each part leaves alone
notOptimizer ==
    <<resolverVars, freeAgentVars, tradeVars, runVars, logVars, tabVars>>
notResolver ==
    <<optimizerVars, freeAgentVars, tradeVars, runVars, logVars, tabVars>>
notFreeAgent ==
    <<optimizerVars, resolverVars, tradeVars, runVars, logVars, tabVars>>
notTrade ==
    <<optimizerVars, resolverVars, freeAgentVars, runVars, logVars, tabVars>>
\* the run fills fp_weekly
notRun ==
    <<optimizerVars, player, proj_source, outcome, freeAgentVars, tradeVars,
      logVars, tabVars>>
\* the Logs tab reads proj_source and rewrites performance_log
notLog ==
    <<optimizerVars, player, fp_weekly, outcome, freeAgentVars, tradeVars,
      runStepVars, tabVars>>
\* the tabs read the optimizer's result and the free agent
notTab == <<resolverVars, tradeVars, runVars, logVars>>

\* no call has returned yet
NoResult == [returned |-> FALSE, lineup |-> <<>>, bench |-> <<>>]

\* ----------------------------------------------------------------- helpers
\* key=lambda p: get_proj_week(p): the value get_proj_week returns for player
\* i during the call
WeekProj(r, i) == r[i].proj

\* getattr(p, "position", "")
PositionOf(r, i) == r[i].position

\* slot in starting_slots
HasSlot(m, s) == \E i \in DOMAIN m : m[i][1] = s

\* for p in roster: if pos in groups: groups[pos].append(p)
Bucket(r, key) == SelectSeq([i \in 1..Len(r) |-> i], LAMBDA i : PositionOf(r, i) = key)

RECURSIVE Concat(_, _, _)
Concat(r, keys, k) ==
    IF k > Len(keys) THEN <<>> ELSE Bucket(r, keys[k]) \o Concat(r, keys, k + 1)

\* the FLEX bucket collected in one pass over the roster
ExtendFlexInRosterOrder(r) ==
    SelectSeq([i \in 1..Len(r) |-> i],
              LAMBDA i : PositionOf(r, i) = "FLEX"
                         \/ \E k \in DOMAIN FlexSources : PositionOf(r, i) = FlexSources[k])

\* for pos in ["RB", "WR", "TE"]: groups["FLEX"].extend(groups[pos])
ExtendFlex(r) == Bucket(r, "FLEX") \o Concat(r, FlexSources, 1)

\* an insertion that puts x ahead of the elements with an equal key
InsertDescTiesReversed(r, s, x) ==
    LET ahead == {j \in 1..Len(s) : WeekProj(r, s[j]) > WeekProj(r, x)}
        n == Cardinality(ahead)
    IN  SubSeq(s, 1, n) \o <<x>> \o SubSeq(s, n + 1, Len(s))

\* an insertion for an ascending sort (reverse=True forgotten)
InsertAsc(r, s, x) ==
    LET ahead == {j \in 1..Len(s) : WeekProj(r, s[j]) <= WeekProj(r, x)}
        n == Cardinality(ahead)
    IN  SubSeq(s, 1, n) \o <<x>> \o SubSeq(s, n + 1, Len(s))

\* list.sort(key=get_proj_week, reverse=True): a stable sort, so elements with
\* equal keys keep the order they had in the list before the sort
InsertDesc(r, s, x) ==
    LET ahead == {j \in 1..Len(s) : WeekProj(r, s[j]) >= WeekProj(r, x)}
        n == Cardinality(ahead)
    IN  SubSeq(s, 1, n) \o <<x>> \o SubSeq(s, n + 1, Len(s))

RECURSIVE SortDescUpTo(_, _, _)
SortDescUpTo(r, s, k) ==
    IF k = 0 THEN <<>> ELSE InsertDesc(r, SortDescUpTo(r, s, k - 1), s[k])

SortDesc(r, s) == SortDescUpTo(r, s, Len(s))

BuildGroupsOf(r) ==
    [key \in Slots |->
        SortDesc(r, IF key = "FLEX" THEN ExtendFlex(r) ELSE Bucket(r, key))]

\* FillFrom without the "p not in used" test
RECURSIVE FillFromIgnoringUsed(_, _, _, _, _)
FillFromIgnoringUsed(bucket, k, count, u, acc) ==
    IF k > Len(bucket) THEN acc
    ELSE IF Len(acc) < count
         THEN FillFromIgnoringUsed(bucket, k + 1, count, u, Append(acc, bucket[k]))
         ELSE FillFromIgnoringUsed(bucket, k + 1, count, u, acc)

\* FillFrom with "len(lineup[slot]) <= count"
RECURSIVE FillFromOneMore(_, _, _, _, _)
FillFromOneMore(bucket, k, count, u, acc) ==
    IF k > Len(bucket) THEN acc
    ELSE IF bucket[k] \notin u /\ Len(acc) <= count
         THEN FillFromOneMore(bucket, k + 1, count, u \cup {bucket[k]}, Append(acc, bucket[k]))
         ELSE FillFromOneMore(bucket, k + 1, count, u, acc)

\* FillFrom leaving the bucket at the first player that is already used
RECURSIVE FillFromBreakOnUsed(_, _, _, _, _)
FillFromBreakOnUsed(bucket, k, count, u, acc) ==
    IF k > Len(bucket) THEN acc
    ELSE IF bucket[k] \in u THEN acc
    ELSE IF Len(acc) < count
         THEN FillFromBreakOnUsed(bucket, k + 1, count, u \cup {bucket[k]}, Append(acc, bucket[k]))
         ELSE FillFromBreakOnUsed(bucket, k + 1, count, u, acc)

\* for p in groups.get(slot, []):
\*     if p not in used and len(lineup[slot]) < count: append, add to used
RECURSIVE FillFrom(_, _, _, _, _)
FillFrom(bucket, k, count, u, acc) ==
    IF k > Len(bucket) THEN acc
    ELSE IF bucket[k] \notin u /\ Len(acc) < count
         THEN FillFrom(bucket, k + 1, count, u \cup {bucket[k]}, Append(acc, bucket[k]))
         ELSE FillFrom(bucket, k + 1, count, u, acc)

\* the bench as the whole roster
BenchOfWholeRoster(r, u) == [i \in 1..Len(r) |-> i]

\* bench = [p for p in roster if p not in used]
BenchOf(r, u) == SelectSeq([i \in 1..Len(r) |-> i], LAMBDA i : i \notin u)

\* ------------------------------------------------------------------ state
Init ==
    /\ roster \in Rosters
    /\ starting_slots \in SlotMaps
    /\ groups = [key \in Slots |-> <<>>]
    /\ used = {}
    /\ lineup = <<>>
    /\ bench = <<>>
    /\ pc = "start"
    /\ next_slot = 1
    /\ prev = NoResult
    /\ ResolverIdle
    /\ FreeAgentIdle
    /\ TradeIdle
    /\ RunIdle
    /\ LogIdle
    /\ TabIdle

\* BuildGroups with a used set that outlives the call
BuildGroupsStaleUsed ==
    /\ pc = "start"
    /\ groups' = BuildGroupsOf(roster)
    /\ lineup' = [i \in DOMAIN starting_slots |-> <<>>]
    /\ next_slot' = 1
    /\ pc' = "fill"
    /\ UNCHANGED <<roster, starting_slots, used, bench, prev>>
    /\ UNCHANGED notOptimizer

\* build_optimizer up to the slot loop: bucket, extend FLEX, sort, fresh used
\* and lineup
BuildGroups ==
    /\ pc = "start"
    /\ groups' = BuildGroupsOf(roster)
    /\ used' = {}
    /\ lineup' = [i \in DOMAIN starting_slots |-> <<>>]
    /\ next_slot' = 1
    /\ pc' = "fill"
    /\ UNCHANGED <<roster, starting_slots, bench, prev>>
    /\ UNCHANGED notOptimizer

\* one iteration of "for slot, count in starting_slots.items()"
FillSlot ==
    /\ pc = "fill"
    /\ next_slot <= Len(starting_slots)
    /\ LET slot == starting_slots[next_slot][1]
           count == starting_slots[next_slot][2]
           got == FillFrom(groups[slot], 1, count, used, <<>>)
       IN  /\ lineup' = [lineup EXCEPT ![next_slot] = got]
           /\ used' = used \cup Range(got)
    /\ next_slot' = next_slot + 1
    /\ UNCHANGED <<roster, starting_slots, groups, bench, pc, prev>>
    /\ UNCHANGED notOptimizer

\* bench = [p for p in roster if p not in used]; return lineup, bench
MakeBench ==
    /\ pc = "fill"
    /\ next_slot > Len(starting_slots)
    /\ bench' = BenchOf(roster, used)
    /\ pc' = "done"
    /\ UNCHANGED <<roster, starting_slots, groups, used, lineup, next_slot, prev>>
    /\ UNCHANGED notOptimizer

\* the UI re-renders: build_optimizer is called again on the same roster and
\* requirement map
Rerun ==
    /\ pc = "done"
    /\ prev' = [returned |-> TRUE, lineup |-> lineup, bench |-> bench]
    /\ pc' = "start"
    /\ UNCHANGED <<roster, starting_slots, groups, used, lineup, bench, next_slot>>
    /\ UNCHANGED notOptimizer

\* the slots _best_alternative matches by position; every other slot takes
\* the RB, WR and TE players
NamedSlots == {"QB", "RB", "WR", "TE", "K", "D/ST"}
\* used = sum(lineup.values(), [])
UsedIn(lu) == UNION {Range(lu[k]) : k \in DOMAIN lu}
\* elig of _best_alternative(slot)
EligibleUnused(r, lu, slot) ==
    {i \in 1..Len(r) :
        /\ IF slot \in NamedSlots
           THEN PositionOf(r, i) = slot
           ELSE PositionOf(r, i) \in Range(FlexSources)
        /\ i \notin UsedIn(lu)}
\* _best_alternative with the starters as the pool
_best_alternative_AmongUsed(r, lu, slot) ==
    LET elig == {i \in UsedIn(lu) :
                    IF slot \in NamedSlots
                    THEN PositionOf(r, i) = slot
                    ELSE PositionOf(r, i) \in Range(FlexSources)}
    IN  IF elig = {}
        THEN [alt |-> 0, alt_w |-> 0]
        ELSE LET alt == CHOOSE i \in elig :
                            \A j \in elig :
                                \/ WeekProj(r, i) > WeekProj(r, j)
                                \/ (WeekProj(r, i) = WeekProj(r, j) /\ i <= j)
             IN  [alt |-> alt, alt_w |-> WeekProj(r, alt)]
\* _best_alternative(slot): max(elig, key=get_proj_week) is the first player
\* of elig, in roster order, with the highest value; alt 0 is None
_best_alternative(r, lu, slot) ==
    LET elig == EligibleUnused(r, lu, slot)
    IN  IF elig = {}
        THEN [alt |-> 0, alt_w |-> 0]
        ELSE LET alt == CHOOSE i \in elig :
                            \A j \in elig :
                                \/ WeekProj(r, i) > WeekProj(r, j)
                                \/ (WeekProj(r, i) = WeekProj(r, j) /\ i <= j)
             IN  [alt |-> alt, alt_w |-> WeekProj(r, alt)]
\* the row of starter p of slot
MarginRow(r, lu, slot, p) ==
    LET best == _best_alternative(r, lu, slot)
    IN  [Slot |-> slot, Starter |-> p, NextBest |-> best.alt,
         Margin |-> WeekProj(r, p) - (IF best.alt # 0 THEN best.alt_w ELSE 0)]
\* for slot, players in lineup.items(): for p in players: rows.append(...)
RECURSIVE MarginRowsFrom(_, _, _, _)
MarginRowsFrom(r, m, lu, k) ==
    IF k > Len(lu) THEN <<>>
    ELSE [j \in 1..Len(lu[k]) |-> MarginRow(r, lu, m[k][1], lu[k][j])] \o
         MarginRowsFrom(r, m, lu, k + 1)

\* the Optimizer tab after build_optimizer: the rows of "How this lineup was
\* chosen"
MarginRows ==
    /\ pc = "done"
    /\ ~rows.built
    /\ rows' = [built |-> TRUE,
                list |-> MarginRowsFrom(roster, starting_slots, lineup, 1)]
    /\ UNCHANGED <<optimizerVars, freeAgentVars, drop_sel, dropped, hypo_roster, cur_lineup,
                   new_lineup>>
    /\ UNCHANGED notTab

Next == BuildGroups \/ FillSlot \/ MakeBench \/ MarginRows

Spec == Init /\ [][Next]_vars

\* the optimizer with the re-runs of the UI
NextRerun == BuildGroups \/ FillSlot \/ MakeBench \/ Rerun

SpecRerun == Init /\ [][NextRerun]_vars

\* ------------------------------------------------------- shared vocabulary
Done == pc = "done"
RosterIds == 1..Len(roster)
MapIds == 1..Len(starting_slots)
SlotAt(k) == starting_slots[k][1]
CountAt(k) == starting_slots[k][2]
\* the players of every lineup slot
Assigned == UNION {Range(lineup[k]) : k \in DOMAIN lineup}
\* how often player i occurs in the lineup, and on the bench
LineupCells == UNION {{<<k, j>> : j \in DOMAIN lineup[k]} : k \in DOMAIN lineup}
LineupOcc(i) == Cardinality({c \in LineupCells : lineup[c[1]][c[2]] = i})
BenchOcc(i) == Cardinality({j \in DOMAIN bench : bench[j] = i})
\* eligibility as the dashboard documents it: a named slot takes its own
\* position, FLEX takes RB, WR and TE
FlexPositions == Range(FlexSources)
Eligible(pos, slot) ==
    IF slot = "FLEX" THEN pos \in FlexPositions ELSE pos = slot
\* position of slot s in the map, 0 when the map has no such key
IndexOf(s) == IF HasSlot(starting_slots, s)
              THEN CHOOSE k \in MapIds : SlotAt(k) = s ELSE 0

\* ------------------------------------------------------------------ claims
\* C1: the returned lineup and bench partition the roster: every roster
\* player occurs exactly once, either in one lineup slot or on the bench, and
\* nobody from outside the roster occurs.
C1_LineupBenchPartition ==
    Done =>
        /\ \A i \in RosterIds : LineupOcc(i) + BenchOcc(i) = 1
        /\ Assigned \cup Range(bench) = RosterIds
        /\ Assigned \cap Range(bench) = {}

\* C1 witness: a returned partition with a starter and a bench player
C1_Witness == Done /\ Assigned # {} /\ bench # <<>>

\* C2: no player is assigned twice; a player that is in its position bucket
\* and in the FLEX bucket occupies at most one cell of the lineup.
C2_AssignedOnce ==
    pc \in {"fill", "done"} => \A i \in RosterIds : LineupOcc(i) <= 1

\* C2 witness: the map holds FLEX and the named slot of an assigned player
\* that sits in both buckets, and both slots had room for it
C2_Witness ==
    /\ Done
    /\ \E i \in Assigned :
          /\ PositionOf(roster, i) \in FlexPositions
          /\ IndexOf("FLEX") > 0 /\ IndexOf(PositionOf(roster, i)) > 0
          /\ CountAt(IndexOf("FLEX")) > 0
          /\ CountAt(IndexOf(PositionOf(roster, i))) > 0
          /\ Len(lineup[IndexOf("FLEX")]) < CountAt(IndexOf("FLEX"))

\* C3: no slot receives more players than its required count; a slot with
\* required count 0 receives nobody.
C3_CountRespected ==
    pc \in {"fill", "done"} =>
        \A k \in MapIds :
            /\ Len(lineup[k]) <= CountAt(k)
            /\ CountAt(k) = 0 => lineup[k] = <<>>

\* C3 witness: a slot is full and an eligible player was left on the bench,
\* and a slot with count 0 had an eligible player to refuse
C3_Witness ==
    /\ Done
    /\ \E k \in MapIds :
          /\ CountAt(k) > 0 /\ Len(lineup[k]) = CountAt(k)
          /\ \E i \in Range(bench) : Eligible(PositionOf(roster, i), SlotAt(k))
    /\ \E k \in MapIds :
          /\ CountAt(k) = 0
          /\ \E i \in RosterIds : Eligible(PositionOf(roster, i), SlotAt(k))

\* C4: only eligible players are assigned: FLEX holds RB, WR or TE players
\* only, a named slot holds players of exactly its position, and a player
\* whose position is none of the six known names ends on the bench.
KnownPositions == Slots \ {"FLEX"}
C4_OnlyEligibleAssigned ==
    Done =>
        /\ \A k \in MapIds : \A i \in Range(lineup[k]) :
              Eligible(PositionOf(roster, i), SlotAt(k))
        /\ \A i \in RosterIds :
              PositionOf(roster, i) \notin KnownPositions => i \in Range(bench)

\* C5: a slot is under-filled only when its eligible pool is exhausted: then
\* every roster player eligible for the slot is in the lineup.
C5_ShortOnlyWhenExhausted ==
    Done =>
        \A k \in MapIds :
            Len(lineup[k]) < CountAt(k) =>
                \A i \in RosterIds :
                    Eligible(PositionOf(roster, i), SlotAt(k)) =>
                        i \in Assigned /\ i \notin Range(bench)

\* C5 witness: FLEX is under-filled although eligible players exist, one of
\* them taken by a named slot that was processed before FLEX
C5_Witness ==
    /\ Done
    /\ \E k \in MapIds :
          /\ SlotAt(k) = "FLEX"
          /\ Len(lineup[k]) < CountAt(k)
          /\ \E j \in 1..(k - 1) : lineup[j] # <<>> /\ SlotAt(j) \in FlexPositions

\* ---- totals and the best eligible assignment
RECURSIVE SumProj(_, _, _)
SumProj(r, s, k) == IF k > Len(s) THEN 0 ELSE WeekProj(r, s[k]) + SumProj(r, s, k + 1)

RECURSIVE LineupTotalFrom(_)
LineupTotalFrom(k) ==
    IF k > Len(lineup) THEN 0 ELSE SumProj(roster, lineup[k], 1) + LineupTotalFrom(k + 1)
LineupTotal == LineupTotalFrom(1)

MaxOf(S) == CHOOSE x \in S : \A y \in S : x >= y

\* the best total of players i..n when slot k still has room[k] places: each
\* player goes to the bench or to one slot it is eligible for
RECURSIVE BestFrom(_, _)
BestFrom(i, room) ==
    IF i > Len(roster) THEN 0
    ELSE MaxOf({BestFrom(i + 1, room)} \cup
               {WeekProj(roster, i) + BestFrom(i + 1, [room EXCEPT ![k] = @ - 1]) :
                   k \in {j \in MapIds : room[j] > 0
                                         /\ Eligible(PositionOf(roster, i), SlotAt(j))}})
BestTotal == BestFrom(1, [k \in MapIds |-> CountAt(k)])

\* FLEX is absent from the map or comes after each of RB, WR, TE that is a key
FlexAfterNamed ==
    IndexOf("FLEX") > 0 =>
        \A k \in MapIds : SlotAt(k) \in FlexPositions => k < IndexOf("FLEX")
\* FLEX is a key and comes before each of RB, WR, TE that is a key
FlexBeforeNamed ==
    /\ IndexOf("FLEX") > 0
    /\ \A k \in MapIds : SlotAt(k) \in FlexPositions => IndexOf("FLEX") < k
AllAssignedEligible ==
    \A k \in MapIds : \A i \in Range(lineup[k]) :
        Eligible(PositionOf(roster, i), SlotAt(k))

\* C6 (as claimed): for any slot order the returned lineup has the maximum
\* total weekly projection among the assignments that respect eligibility
\* and counts and use each player at most once: no such assignment totals
\* more, and a lineup that is such an assignment totals exactly the maximum.
C6_OptimalAnyOrder ==
    Done =>
        /\ LineupTotal >= BestTotal
        /\ AllAssignedEligible => LineupTotal = BestTotal

\* C6 (amended): when FLEX is absent or comes after every RB, WR and TE key
\* of the map, the lineup's total is not below that maximum, and equals it
\* when every assigned player is eligible for its slot.
C6_OptimalWhenFlexLast ==
    (Done /\ FlexAfterNamed) =>
        /\ LineupTotal >= BestTotal
        /\ AllAssignedEligible => LineupTotal = BestTotal

\* C6 witness: FLEX comes after a named RB/WR/TE slot that holds a player,
\* and FLEX holds a player of that position with a positive projection
C6_Witness ==
    /\ Done /\ FlexAfterNamed /\ IndexOf("FLEX") > 1
    /\ \E k \in MapIds :
          /\ SlotAt(k) \in FlexPositions /\ lineup[k] # <<>>
          /\ \E i \in Range(lineup[IndexOf("FLEX")]) :
                PositionOf(roster, i) = SlotAt(k) /\ WeekProj(roster, i) > 0

\* ---- order inside the buckets
NonIncreasing(s) ==
    \A a, b \in DOMAIN s : a < b => WeekProj(roster, s[a]) >= WeekProj(roster, s[b])
TiesInRosterOrder(s) ==
    \A a, b \in DOMAIN s :
        (a < b /\ WeekProj(roster, s[a]) = WeekProj(roster, s[b])) => s[a] < s[b]

C8_FlexTiesInRosterOrder ==
    pc \in {"fill", "done"} => TiesInRosterOrder(groups["FLEX"])

\* the place of a position in the FLEX bucket before it is sorted
FlexRank(pos) ==
    IF pos = "FLEX" THEN 0
    ELSE CHOOSE k \in DOMAIN FlexSources : FlexSources[k] = pos

\* C8 (amended): in the FLEX bucket players with equal projection keep the
\* order in which the bucket was built: RB before WR before TE (after any
\* player whose position string is FLEX), roster order inside one position.
C8_FlexTiesInBuildOrder ==
    pc \in {"fill", "done"} =>
        LET g == groups["FLEX"] IN
        /\ NonIncreasing(g)
        /\ \A a, b \in DOMAIN g :
              (a < b /\ WeekProj(roster, g[a]) = WeekProj(roster, g[b])) =>
                  LET ra == FlexRank(PositionOf(roster, g[a]))
                      rb == FlexRank(PositionOf(roster, g[b]))
                  IN  ra < rb \/ (ra = rb /\ g[a] < g[b])

\* C8 witness: a WR listed before an RB ties with it, and FLEX took the RB
\* and left the WR on the bench
C8_Witness ==
    /\ Done /\ IndexOf("FLEX") > 0
    /\ \E i, j \in RosterIds :
          /\ i < j
          /\ PositionOf(roster, i) = "WR" /\ PositionOf(roster, j) = "RB"
          /\ WeekProj(roster, i) = WeekProj(roster, j)
          /\ j \in Range(lineup[IndexOf("FLEX")])
          /\ i \in Range(bench)

\* C9: a second run on the same roster and requirement map returns the same
\* slot lists, in the same order, and the same bench.
C9_RerunSameResult ==
    (Done /\ prev.returned) => (lineup = prev.lineup /\ bench = prev.bench)

\* C9 witness: the second run has returned, with starters and a bench
C9_Witness == Done /\ prev.returned /\ Assigned # {} /\ bench # <<>>

\* ---- who a slot should hold
\* s holds exactly min(count, |pool|) players of pool, and nobody of pool
\* outside s has a strictly higher projection than somebody inside
TopOf(s, pool, count) ==
    /\ Range(s) \subseteq pool
    /\ Len(s) = IF Cardinality(pool) < count THEN Cardinality(pool) ELSE count
    /\ \A i \in Range(s) : \A j \in pool \ Range(s) :
          WeekProj(roster, i) >= WeekProj(roster, j)
PlayersAt(posSet) == {i \in RosterIds : PositionOf(roster, i) \in posSet}

\* C10: slots are filled in the map's order and the first slot claims a
\* contested player: FLEX first takes the highest RB/WR/TE players of the
\* roster and the named slots take from the rest; FLEX last takes the best
\* of what the named slots, filled with the top of their positions, left.
C10_FirstSlotClaims ==
    /\ pc = "fill" => \A k \in MapIds : k >= next_slot => lineup[k] = <<>>
    /\ (Done /\ FlexBeforeNamed) =>
          LET f == IndexOf("FLEX") IN
          /\ TopOf(lineup[f], PlayersAt(FlexPositions), CountAt(f))
          /\ \A k \in MapIds : SlotAt(k) \in FlexPositions =>
                TopOf(lineup[k], PlayersAt({SlotAt(k)}) \ Range(lineup[f]), CountAt(k))
    /\ (Done /\ FlexAfterNamed /\ IndexOf("FLEX") > 0) =>
          LET f == IndexOf("FLEX")
              named == UNION {Range(lineup[k]) : k \in {j \in MapIds : j # f}}
          IN
          /\ \A k \in MapIds : SlotAt(k) \in FlexPositions =>
                TopOf(lineup[k], PlayersAt({SlotAt(k)}), CountAt(k))
          /\ TopOf(lineup[f], PlayersAt(FlexPositions) \ named, CountAt(f))

\* C10 without the players whose position string is FLEX (the case of C4)
C10_FirstSlotClaimsKnownPositions ==
    (\A i \in RosterIds : PositionOf(roster, i) # "FLEX") => C10_FirstSlotClaims

\* C23: after build_optimizer, no bench player eligible for a slot has a
\* strictly higher weekly projection than a player assigned to that slot, and
\* the Margin of every row of the Optimizer tab is not negative.
C23_BenchNeverBeatsStarter ==
    /\ Done =>
          \A k \in MapIds : \A p \in Range(lineup[k]) : \A b \in Range(bench) :
              Eligible(PositionOf(roster, b), SlotAt(k)) =>
                  WeekProj(roster, b) <= WeekProj(roster, p)
    /\ rows.built =>
          /\ Len(rows.list) = Cardinality(LineupCells)
          /\ \A n \in DOMAIN rows.list : rows.list[n].Margin >= 0

\* C23 witness: a row whose starter has an unused eligible player of the
\* bench behind it, with a positive margin
C23_Witness ==
    /\ rows.built
    /\ \E n \in DOMAIN rows.list :
          /\ rows.list[n].NextBest \in Range(bench)
          /\ rows.list[n].Margin > 0


\* =========================================================================
\* Projection resolver (get_proj_week with safe_proj, _pos_key and
\* _match_fp_row)
\* =========================================================================
\* Text is a sequence of one-character strings.  Numbers are in the unit of
\* the projections (0..MaxProj); 0 is the value Python treats as false.

\* ------------------------------------------------------------ input domains
ProjSources == {"ESPN only", "FantasyPros fallback", "FantasyPros only"}
\* None as the value of an attribute
PyNone == "<None>"
\* position attribute of the player: two spellings of a position with a
\* table, a position whose table is not in fp_weekly, a string that is no
\* position, the attribute missing (getattr's default "") and None
ResolverPositions == {"RB", "rb", "K", "P", "", PyNone}
\* player.name: empty, blank, one token, a token that is a regular-expression
\* wildcard, two tokens
PlayerNames == {<<>>, <<" ">>, <<"a">>, <<".">>, <<"A", " ", "b">>}
\* player.stats at the week asked for: has_week is "hasattr(player, 'stats')
\* and week in player.stats", projected is player.stats[week]["projected"]
StatsOfWeek ==
    {[has_week |-> FALSE, projected |-> 0]}
        \cup {[has_week |-> TRUE, projected |-> v] : v \in 0..MaxProj}
ResolverPlayers ==
    [position : ResolverPositions, name : PlayerNames, stats : StatsOfWeek,
     projected_points : 0..MaxProj]
\* cells of a scraped table are text: the Player cell, and the FPTS cell that
\* is the text of a number or some other text
PlayerCells == {<<"A">>, <<"b">>, <<"b", "a">>}
FptsCells ==
    {[numeric |-> FALSE, n |-> 0]}
        \cup {[numeric |-> TRUE, n |-> v] : v \in 0..MaxProj}
FpRows == [Player : PlayerCells, FPTS : FptsCells]
\* DataFrames of no, one or two rows with a Player column, and one with rows
\* but no Player column
FpTables ==
    {[player_col |-> TRUE, rows |-> r] :
        r \in {<<>>} \cup {<<a>> : a \in FpRows}
                     \cup {<<ab[1], ab[2]>> : ab \in FpRows \X FpRows}}
      \cup {[player_col |-> FALSE,
             rows |-> <<[Player |-> <<"A">>, FPTS |-> [numeric |-> TRUE, n |-> MaxProj]]>>]}
\* pd.DataFrame()
EmptyFrame == [player_col |-> FALSE, rows |-> <<>>]
\* fp_weekly: the dict of tables by position key; the key "k" is left out
FpWeeklies == [{"rb"} -> FpTables]

\* ----------------------------------------------------------- the functions
\* a call either returns a value or raises
Returns(v) == [returned |-> TRUE, raised |-> FALSE, value |-> v]
Raises == [returned |-> TRUE, raised |-> TRUE, value |-> 0]

\* float(val or 0) inside try/except: the number a numeric text stands for,
\* 0.0 for any other text
safe_proj(val) == IF val.numeric THEN val.n ELSE 0

\* str.upper() on the position strings of the domain
Upper(str) == IF str = "rb" THEN "RB" ELSE str
\* the dict literal of _pos_key with its .get: "" stands for None (no key)
PosKeyOf(str) ==
    CASE str = "QB" -> "qb"
      [] str = "RB" -> "rb"
      [] str = "WR" -> "wr"
      [] str = "TE" -> "te"
      [] str = "K" -> "k"
      [] str = "D/ST" -> "dst"
      [] OTHER -> ""
\* _pos_key: None has no upper(), the call raises AttributeError
_pos_key_raises(p) == p.position = PyNone
_pos_key(p) == PosKeyOf(Upper(p.position))

\* name.split(): the tokens between runs of blanks; FirstToken is [0] of it
RECURSIVE SkipBlanks(_, _)
SkipBlanks(name, k) ==
    IF k <= Len(name) /\ name[k] = " " THEN SkipBlanks(name, k + 1) ELSE k
RECURSIVE TokenEnd(_, _)
TokenEnd(name, k) ==
    IF k <= Len(name) /\ name[k] # " " THEN TokenEnd(name, k + 1) ELSE k
HasToken(name) == SkipBlanks(name, 1) <= Len(name)
FirstToken(name) ==
    LET b == SkipBlanks(name, 1)
    IN  SubSeq(name, b, TokenEnd(name, b) - 1)
\* case=False
LowerChar(c) == CASE c = "A" -> "a" [] c = "B" -> "b" [] OTHER -> c
\* a character that is no wildcard matches only itself: Series.str.contains
\* with regex=False
LiteralCharMatches(pch, c) == LowerChar(pch) = LowerChar(c)
\* Series.str.contains(first, case=False): first is a regular expression, in
\* which "." matches any character
CharMatches(pch, c) == pch = "." \/ LowerChar(pch) = LowerChar(c)
Contains(pat, text) ==
    \E k \in 1..(Len(text) - Len(pat) + 1) :
        \A j \in 1..Len(pat) : CharMatches(pat[j], text[k + j - 1])
\* _match_fp_row raises IndexError on name.split()[0] of a name without token
_match_fp_row_raises(df, name) ==
    /\ ~(df.rows = <<>> \/ ~df.player_col)
    /\ ~HasToken(name)
\* _match_fp_row: index of the row returned (hits.iloc[0], the hit of the
\* lowest index), 0 for None
_match_fp_row(df, name) ==
    IF df.rows = <<>> \/ ~df.player_col THEN 0
    ELSE LET hits == {i \in DOMAIN df.rows :
                         Contains(FirstToken(name), df.rows[i].Player)}
         IN  IF hits = {} THEN 0 ELSE CHOOSE i \in hits : \A j \in hits : i <= j

\* the ESPN part of get_proj_week: the projected value of the week if it is
\* true, otherwise projected_points if it is true, otherwise 0 (nothing)
EspnValue(p) ==
    IF p.stats.has_week /\ p.stats.projected # 0 THEN p.stats.projected
    ELSE p.projected_points
\* the FantasyPros part of get_proj_week
FpPart(p, tables) ==
    IF _pos_key_raises(p) THEN Raises
    ELSE IF _pos_key(p) = "" THEN Returns(0)
    ELSE LET key == _pos_key(p)
             df == IF key \in DOMAIN tables THEN tables[key] ELSE EmptyFrame
         IN  IF _match_fp_row_raises(df, p.name) THEN Raises
             ELSE IF _match_fp_row(df, p.name) # 0
                  THEN Returns(safe_proj(df.rows[_match_fp_row(df, p.name)].FPTS))
                  ELSE Returns(0)
\* get_proj_week with "ESPN only" treated as the fallback mode
get_proj_week_EspnOnlyFallsBack(p, source, tables) ==
    IF source # "FantasyPros only" /\ EspnValue(p) # 0 THEN Returns(EspnValue(p))
    ELSE FpPart(p, tables)
get_proj_week(p, source, tables) ==
    IF source \in {"ESPN only", "FantasyPros fallback"} /\ EspnValue(p) # 0
    THEN Returns(EspnValue(p))
    ELSE IF source = "ESPN only" THEN Returns(0)
    ELSE IF source \in {"FantasyPros fallback", "FantasyPros only"}
    THEN FpPart(p, tables)
    ELSE Returns(0)

\* -------------------------------------------------------- the state machine
InitResolver ==
    /\ player \in ResolverPlayers
    /\ proj_source \in ProjSources
    /\ fp_weekly \in FpWeeklies
    /\ outcome = NoOutcome
    /\ OptimizerIdle
    /\ FreeAgentIdle
    /\ TradeIdle
    /\ RunIdle
    /\ LogIdle
    /\ TabIdle

\* one call get_proj_week(player) under the projection source and the tables
\* of the page
GetProjWeek ==
    /\ ~outcome.returned
    /\ outcome' = get_proj_week(player, proj_source, fp_weekly)
    /\ UNCHANGED <<player, proj_source, fp_weekly>>
    /\ UNCHANGED notResolver

NextResolver == GetProjWeek

SpecResolver == InitResolver /\ [][NextResolver]_vars

\* --------------------------------------------- vocabulary of C11 .. C14
ResolverDone == outcome.returned
\* ESPN yields a usable value: a non-zero projected value of the week in
\* player.stats, otherwise a true projected_points
EspnUsable(p) ==
    \/ p.stats.has_week /\ p.stats.projected # 0
    \/ p.projected_points # 0
EspnUsableValue(p) ==
    IF p.stats.has_week /\ p.stats.projected # 0 THEN p.stats.projected
    ELSE p.projected_points
\* the table of the player's position, the empty table when there is none
PositionKnown(p) == p.position \in {"QB", "RB", "WR", "TE", "K", "D/ST",
                                    "qb", "rb", "wr", "te", "k", "d/st"}
TableOf(p, tables) ==
    IF PositionKnown(p) /\ _pos_key(p) \in DOMAIN tables
    THEN tables[_pos_key(p)] ELSE EmptyFrame
\* the Player name of a row contains the first token of the name, case
\* ignored, character by character
ContainsLiteral(pat, text) ==
    \E k \in 1..(Len(text) - Len(pat) + 1) :
        \A j \in 1..Len(pat) : LiteralCharMatches(pat[j], text[k + j - 1])
RowsContaining(df, name) ==
    IF ~df.player_col \/ ~HasToken(name) THEN {}
    ELSE {i \in DOMAIN df.rows : ContainsLiteral(FirstToken(name), df.rows[i].Player)}
\* the FPTS of the first such row in table order, 0 when there is none
FirstRowFpts(df, name) ==
    LET hits == RowsContaining(df, name)
    IN  IF hits = {} THEN 0
        ELSE safe_proj(df.rows[CHOOSE i \in hits : \A j \in hits : i <= j].FPTS)

\* C11: under "ESPN only" get_proj_week returns the ESPN value when one is
\* usable and 0.0 otherwise, it never raises, and the result is the same for
\* every content of the FantasyPros weekly tables.
C11_EspnOnlyNeverFallsBack ==
    (ResolverDone /\ proj_source = "ESPN only") =>
        /\ ~outcome.raised
        /\ outcome.value = (IF EspnUsable(player) THEN EspnUsableValue(player) ELSE 0)
        /\ \A tables \in FpWeeklies :
              get_proj_week(player, proj_source, tables) = outcome
\* an "ESPN only" call returned 0.0 for a player without a usable ESPN value
\* while the table of its position holds a row for it with a non-zero FPTS
C11_Witness ==
    /\ ResolverDone /\ proj_source = "ESPN only"
    /\ ~EspnUsable(player)
    /\ FirstRowFpts(TableOf(player, fp_weekly), player.name) > 0
    /\ outcome = Returns(0)

\* C12: under "FantasyPros fallback" get_proj_week returns the ESPN value
\* when ESPN yields a usable non-zero value; otherwise it returns the FPTS of
\* the matching row of the position's table, and 0.0 when no row matches.
C12_FallbackOnlyWithoutEspn ==
    (ResolverDone /\ proj_source = "FantasyPros fallback") =>
        /\ ~outcome.raised
        /\ outcome.value =
              (IF EspnUsable(player) THEN EspnUsableValue(player)
               ELSE FirstRowFpts(TableOf(player, fp_weekly), player.name))

\* C13: under "FantasyPros only" get_proj_week ignores the ESPN data and
\* returns the FPTS of the first row, in table order, of the position's
\* table whose Player name contains the first name token, case ignored, and
\* 0.0 when the position is unknown or no row matches.
C13_FpOnlyFirstContainingRow ==
    (ResolverDone /\ proj_source = "FantasyPros only") =>
        /\ ~outcome.raised
        /\ outcome.value = FirstRowFpts(TableOf(player, fp_weekly), player.name)

\* C14: get_proj_week never raises: for every player record and every mode
\* the call returns a number, and a failed lookup returns 0.0.
C14_NeverRaises == ResolverDone => ~outcome.raised

\* =========================================================================
\* Free Agents tab: one pass of the verdict loop, with _would_start
\* =========================================================================
\* A player is its position and its three values: w the weekly projection
\* (get_proj_week), re and rf the rest-of-season values (get_ros_espn,
\* get_ros_fp).  A list of starters is the list of their weekly projections.

\* ------------------------------------------------------------ input domains
\* flex_eligible
FlexEligible == {"RB", "WR", "TE"}
\* position of the candidate: one with a slot of its own only, one that is
\* flex-eligible, and a string that is no key of starters_by_pos
CandidatePositions == {"QB", "RB", "P"}
\* rest-of-season values and the threshold they are compared with
RosValues == {0, 1}
RosThresholds == {1, 2}
Candidates ==
    [position : CandidatePositions, w : 0..MaxProj, re : RosValues, rf : RosValues]
\* what _lowest_bench_candidate returned: (None, 0.0, 0.0, 0.0) or a bench
\* player with its three values
DropCandidates ==
    {[present |-> FALSE, w |-> 0, re |-> 0, rf |-> 0]}
        \cup [present : {TRUE}, w : 0..MaxProj, re : RosValues, rf : RosValues]
\* the starters of a slot: none, one or two
StarterLists ==
    {<<>>} \cup {<<a>> : a \in 0..MaxProj}
           \cup {<<ab[1], ab[2]>> : ab \in (0..MaxProj) \X (0..MaxProj)}
\* starters_by_pos over the keys QB and RB, at most one of the slots filled
StarterKeys == {"QB", "RB"}
StartersByPos ==
    {[k \in StarterKeys |-> IF k = key THEN l ELSE <<>>] :
        key \in StarterKeys, l \in StarterLists}

\* ----------------------------------------------------------- the functions
_is_flex_eligible(pos) == pos \in FlexEligible

\* get_proj_week(min(starters, key=get_proj_week)), by a pass over the list
RECURSIVE WorstUpTo(_, _)
WorstUpTo(starters, n) ==
    IF n = 1 THEN starters[1]
    ELSE LET rest == WorstUpTo(starters, n - 1)
         IN  IF starters[n] < rest THEN starters[n] ELSE rest
Worst(starters) == WorstUpTo(starters, Len(starters))

\* _would_start with >= in place of >
_would_start_OnTies(candidate, by_pos, flex) ==
    LET slot_starters ==
            IF candidate.position \in DOMAIN by_pos
            THEN by_pos[candidate.position] ELSE <<>>
    IN  \/ slot_starters # <<>> /\ candidate.w >= Worst(slot_starters)
        \/ /\ _is_flex_eligible(candidate.position)
           /\ flex # <<>>
           /\ candidate.w >= Worst(flex)
_would_start(candidate, by_pos, flex) ==
    LET slot_starters ==
            IF candidate.position \in DOMAIN by_pos
            THEN by_pos[candidate.position] ELSE <<>>
    IN  IF slot_starters # <<>> /\ candidate.w > Worst(slot_starters) THEN TRUE
        ELSE IF /\ _is_flex_eligible(candidate.position)
                /\ flex # <<>>
                /\ candidate.w > Worst(flex)
             THEN TRUE
             ELSE FALSE

\* worth with > in place of >=
WorthStrictly(delta_w, delta_re, delta_rf, weekly_thr, ros_thr) ==
    \/ delta_w > weekly_thr
    \/ delta_re > ros_thr
    \/ delta_rf > ros_thr
\* worth = (delta_w >= weekly_threshold) or (delta_re >= ros_threshold) or
\*         (delta_rf >= ros_threshold)
Worth(delta_w, delta_re, delta_rf, weekly_thr, ros_thr) ==
    \/ delta_w >= weekly_thr
    \/ delta_re >= ros_thr
    \/ delta_rf >= ros_thr

\* the body of "for fa in fa_list": deltas, verdict and the row appended
RowOf(candidate, drop, weekly_thr, ros_thr, by_pos, flex) ==
    LET starts == _would_start(candidate, by_pos, flex)
    IN  IF ~drop.present
        THEN [appended |-> TRUE, verdict |-> "No roster spot to drop",
              would_start |-> starts,
              delta_w |-> 0, delta_re |-> 0, delta_rf |-> 0]
        ELSE LET delta_w == candidate.w - drop.w
                 delta_re == candidate.re - drop.re
                 delta_rf == candidate.rf - drop.rf
                 worth == Worth(delta_w, delta_re, delta_rf, weekly_thr, ros_thr)
             IN  [appended |-> TRUE,
                  verdict |-> IF worth /\ starts THEN "Add (starts)"
                              ELSE IF worth THEN "Add" ELSE "Pass",
                  would_start |-> starts,
                  delta_w |-> delta_w, delta_re |-> delta_re, delta_rf |-> delta_rf]

\* -------------------------------------------------------- the state machine
InitFreeAgent ==
    /\ fa \in Candidates
    /\ drop_cand \in DropCandidates
    /\ weekly_threshold \in 0..MaxProj
    /\ ros_threshold \in RosThresholds
    /\ starters_by_pos \in StartersByPos
    /\ flex_starters \in StarterLists
    /\ fa_row = NoRow
    /\ OptimizerIdle
    /\ ResolverIdle
    /\ TradeIdle
    /\ RunIdle
    /\ LogIdle
    /\ TabIdle

\* one pass of the loop over fa_list
FreeAgentRow ==
    /\ ~fa_row.appended
    /\ fa_row' = RowOf(fa, drop_cand, weekly_threshold, ros_threshold,
                       starters_by_pos, flex_starters)
    /\ UNCHANGED <<fa, drop_cand, weekly_threshold, ros_threshold,
                   starters_by_pos, flex_starters>>
    /\ UNCHANGED notFreeAgent

NextFreeAgent == FreeAgentRow

SpecFreeAgent == InitFreeAgent /\ [][NextFreeAgent]_vars

\* --------------------------------------------- vocabulary of C15 and C16
AddVerdicts == {"Add", "Add (starts)"}
\* the starters in the slot of the candidate's own position
OwnSlotStarters ==
    IF fa.position \in DOMAIN starters_by_pos
    THEN starters_by_pos[fa.position] ELSE <<>>
\* the candidate's weekly projection is strictly greater than the lowest
\* weekly projection of a non-empty list of starters
BeatsLowest(starters) == \E i \in DOMAIN starters : fa.w > starters[i]

\* C15: for a free agent with a drop candidate the verdict is "Add" or
\* "Add (starts)" exactly when the weekly delta reaches the weekly threshold
\* or one of the two rest-of-season deltas reaches the ROS threshold, and
\* "Pass" otherwise; "Add (starts)" needs a worthwhile add that would start.
C15_AddIffDeltaReachesThreshold ==
    (fa_row.appended /\ drop_cand.present) =>
        LET reached ==
                \/ fa.w - drop_cand.w >= weekly_threshold
                \/ fa.re - drop_cand.re >= ros_threshold
                \/ fa.rf - drop_cand.rf >= ros_threshold
        IN  /\ (fa_row.verdict \in AddVerdicts) <=> reached
            /\ ~reached => fa_row.verdict = "Pass"
            /\ fa_row.verdict = "Add (starts)" => (reached /\ fa_row.would_start)
\* an add decided by the weekly delta alone, at exactly the threshold
C15_Witness ==
    /\ fa_row.appended /\ drop_cand.present
    /\ weekly_threshold > 0
    /\ fa.w - drop_cand.w = weekly_threshold
    /\ fa.re - drop_cand.re < ros_threshold
    /\ fa.rf - drop_cand.rf < ros_threshold
    /\ fa_row.verdict \in AddVerdicts

\* C16: _would_start is true exactly when the candidate's weekly projection
\* is strictly greater than the lowest among the starters of its own
\* position slot, or, for RB/WR/TE, than the lowest among the FLEX starters.
C16_WouldStartIffBeatsWorst ==
    fa_row.appended =>
        (fa_row.would_start <=>
            \/ BeatsLowest(OwnSlotStarters)
            \/ fa.position \in {"RB", "WR", "TE"} /\ BeatsLowest(flex_starters))
\* a candidate that only equals the worst starter of its slot and starts
\* through FLEX, where it beats the worst starter
C16_Witness ==
    /\ fa_row.appended
    /\ OwnSlotStarters # <<>>
    /\ \A i \in DOMAIN OwnSlotStarters : fa.w <= OwnSlotStarters[i]
    /\ \E i \in DOMAIN OwnSlotStarters : fa.w = OwnSlotStarters[i]
    /\ BeatsLowest(flex_starters)
    /\ fa_row.would_start

\* =========================================================================
\* Trade analyzer: totals, net gains and trade_summary_verdict
\* =========================================================================
\* A gain is an integer.  A score is kept as the pair of num, fifty times
\* its exact value (10 * weekly + ros), and rounding, the sign of the
\* difference between the double the code computes, wk / 5.0 + ros / 50.0,
\* and the double nearest to the exact value, num / 50.0.  The thresholds
\* 1.0, 0.5, -0.3 and -0.8 of the code are the doubles nearest to 50/50,
\* 25/50, -15/50 and -40/50.

\* ------------------------------------------------------------ input domains
TradeWeekly == {0, 1, 2}
TradeRos == {0, 35}
TradePlayers == [w : TradeWeekly, re : TradeRos, rf : TradeRos]
\* a side sends nobody, one player or two
SendLists ==
    {<<>>} \cup {<<a>> : a \in TradePlayers}
           \cup {<<ab[1], ab[2]>> : ab \in TradePlayers \X TradePlayers}

\* ----------------------------------------------------------- the functions
\* sum(f(p) for p in players), from the left
RECURSIVE SumUpTo(_, _, _)
SumUpTo(players, n, field) ==
    IF n = 0 THEN 0 ELSE SumUpTo(players, n - 1, field) + players[n][field]
\* totals(players)
totals(players) ==
    [wk |-> SumUpTo(players, Len(players), "w"),
     ros_espn |-> SumUpTo(players, Len(players), "re"),
     ros_fp |-> SumUpTo(players, Len(players), "rf")]

\* the net gain with the two totals exchanged
NetGainOfSender(sent, received) == sent - received
\* A_gain_wk = B_wk - A_wk and the five lines after it: what a team receives
\* minus what it sends
NetGain(sent, received) == received - sent

\* IEEE-754 double evaluation of wk / 5.0 + ros / 50.0 for the gains the
\* input domain produces (wk in -4..4, ros in {-70, -35, 0, 35, 70}): the
\* pairs <<wk, ros>> for which the sum of the two quotients lies below, and
\* above, the double nearest to (10 * wk + ros) / 50; for the other pairs the
\* two are equal
SumRoundsBelow ==
    {<<-4, 35>>, <<-4, 70>>, <<-3, 35>>, <<-3, 70>>, <<-2, 35>>, <<-2, 70>>,
     <<-1, 35>>, <<1, 35>>, <<1, 70>>, <<2, 70>>, <<3, 35>>}
SumRoundsAbove ==
    {<<-3, -35>>, <<-2, -70>>, <<-1, -70>>, <<-1, -35>>, <<1, -35>>,
     <<2, -70>>, <<2, -35>>, <<3, -70>>, <<3, -35>>, <<4, -70>>, <<4, -35>>}
ScoreOf(wk, ros) ==
    [num |-> 10 * wk + ros,
     rounding |-> IF <<wk, ros>> \in SumRoundsBelow THEN -1
                  ELSE IF <<wk, ros>> \in SumRoundsAbove THEN 1 ELSE 0]
\* score >= t / 50 and score > t / 50 on doubles
AtLeast(score, t) == score.num > t \/ (score.num = t /\ score.rounding >= 0)
Above(score, t) == score.num > t \/ (score.num = t /\ score.rounding > 0)

MaxOfTwo(a, b) == IF a >= b THEN a ELSE b
MinOfTwo(a, b) == IF a <= b THEN a ELSE b

\* trade_summary_verdict with the smaller of the two ROS gains
trade_summary_verdict_MinRos(team_gain_wk, team_gain_rosE, team_gain_rosF) ==
    LET ros_gain == MinOfTwo(team_gain_rosE, team_gain_rosF)
        score == ScoreOf(team_gain_wk, ros_gain)
    IN  [verdict |-> IF AtLeast(score, 50) THEN "Strong Accept"
                     ELSE IF AtLeast(score, 25) THEN "Lean Accept"
                     ELSE IF Above(score, -15) THEN "Neutral / Even"
                     ELSE IF Above(score, -40) THEN "Lean Decline"
                     ELSE "Strong Decline",
         score |-> score]
trade_summary_verdict(team_gain_wk, team_gain_rosE, team_gain_rosF) ==
    LET ros_gain == MaxOfTwo(team_gain_rosE, team_gain_rosF)
        score == ScoreOf(team_gain_wk, ros_gain)
    IN  [verdict |-> IF AtLeast(score, 50) THEN "Strong Accept"
                     ELSE IF AtLeast(score, 25) THEN "Lean Accept"
                     ELSE IF Above(score, -15) THEN "Neutral / Even"
                     ELSE IF Above(score, -40) THEN "Lean Decline"
                     ELSE "Strong Decline",
         score |-> score]

\* -------------------------------------------------------- the state machine
InitTrade ==
    /\ send_A \in SendLists
    /\ send_B \in SendLists
    /\ trade = NoTrade
    /\ OptimizerIdle
    /\ ResolverIdle
    /\ FreeAgentIdle
    /\ RunIdle
    /\ LogIdle
    /\ TabIdle

\* the trade analyzer from the totals to the two verdicts
AnalyzeTrade ==
    /\ ~trade.shown
    /\ LET A == totals(send_A)
           B == totals(send_B)
           A_gain_wk == NetGain(A.wk, B.wk)
           B_gain_wk == NetGain(B.wk, A.wk)
           A_gain_rosE == NetGain(A.ros_espn, B.ros_espn)
           B_gain_rosE == NetGain(B.ros_espn, A.ros_espn)
           A_gain_rosF == NetGain(A.ros_fp, B.ros_fp)
           B_gain_rosF == NetGain(B.ros_fp, A.ros_fp)
           a == trade_summary_verdict(A_gain_wk, A_gain_rosE, A_gain_rosF)
           b == trade_summary_verdict(B_gain_wk, B_gain_rosE, B_gain_rosF)
       IN  trade' = [shown |-> TRUE,
                     A_gain_wk |-> A_gain_wk, A_gain_rosE |-> A_gain_rosE,
                     A_gain_rosF |-> A_gain_rosF,
                     B_gain_wk |-> B_gain_wk, B_gain_rosE |-> B_gain_rosE,
                     B_gain_rosF |-> B_gain_rosF,
                     a_verdict |-> a.verdict, a_score |-> a.score,
                     b_verdict |-> b.verdict, b_score |-> b.score]
    /\ UNCHANGED <<send_A, send_B>>
    /\ UNCHANGED notTrade

NextTrade == AnalyzeTrade

SpecTrade == InitTrade /\ [][NextTrade]_vars

\* --------------------------------------------- vocabulary of C17 and C18
\* the sum of one value over the players a team sends, from the right
RECURSIVE SumFrom(_, _, _)
SumFrom(players, k, field) ==
    IF k > Len(players) THEN 0
    ELSE players[k][field] + SumFrom(players, k + 1, field)
Sent(players, field) == SumFrom(players, 1, field)

\* C17: for each of the three metrics team A's net gain is the sum over the
\* players B sends minus the sum over the players A sends, team B's net gain
\* is the negation of A's, and with nobody sent on both sides every net gain
\* is 0.
C17_NetGainsNegate ==
    trade.shown =>
        /\ trade.A_gain_wk = Sent(send_B, "w") - Sent(send_A, "w")
        /\ trade.A_gain_rosE = Sent(send_B, "re") - Sent(send_A, "re")
        /\ trade.A_gain_rosF = Sent(send_B, "rf") - Sent(send_A, "rf")
        /\ trade.B_gain_wk = -trade.A_gain_wk
        /\ trade.B_gain_rosE = -trade.A_gain_rosE
        /\ trade.B_gain_rosF = -trade.A_gain_rosF
        /\ (send_A = <<>> /\ send_B = <<>>) =>
              /\ trade.A_gain_wk = 0 /\ trade.A_gain_rosE = 0 /\ trade.A_gain_rosF = 0
              /\ trade.B_gain_wk = 0 /\ trade.B_gain_rosE = 0 /\ trade.B_gain_rosF = 0
\* a two-for-one trade in which A gains on every metric
C17_Witness ==
    /\ trade.shown
    /\ Len(send_A) = 1 /\ Len(send_B) = 2
    /\ trade.A_gain_wk > 0 /\ trade.A_gain_rosE > 0 /\ trade.A_gain_rosF > 0
    /\ trade.B_gain_wk < 0

\* the label of 50 times the score, by integers
LabelOfFifty(n) ==
    IF n >= 50 THEN "Strong Accept"
    ELSE IF n >= 25 THEN "Lean Accept"
    ELSE IF n > -15 THEN "Neutral / Even"
    ELSE IF n > -40 THEN "Lean Decline"
    ELSE "Strong Decline"
Rank(label) ==
    CASE label = "Strong Accept" -> 5
      [] label = "Lean Accept" -> 4
      [] label = "Neutral / Even" -> 3
      [] label = "Lean Decline" -> 2
      [] label = "Strong Decline" -> 1
Fifty(wk, rosE, rosF) == 10 * wk + (IF rosE >= rosF THEN rosE ELSE rosF)
\* the gains the input domain produces
WeeklyGains == -4..4
RosGains == {-70, -35, 0, 35, 70}
\* no gain that is at least as large, one argument at a time, has a worse
\* label
NeverWorse(wk, rosE, rosF, label) ==
    /\ \A wk2 \in WeeklyGains :
          wk2 >= wk => Rank(trade_summary_verdict(wk2, rosE, rosF).verdict) >= Rank(label)
    /\ \A e2 \in RosGains :
          e2 >= rosE => Rank(trade_summary_verdict(wk, e2, rosF).verdict) >= Rank(label)
    /\ \A f2 \in RosGains :
          f2 >= rosF => Rank(trade_summary_verdict(wk, rosE, f2).verdict) >= Rank(label)
\* the label of a side is the label of 10 * weekly + ros against 50, 25, -15
\* and -40
ByIntegers(wk, rosE, rosF, label) == label = LabelOfFifty(Fifty(wk, rosE, rosF))
\* the same off the four values; on one of them the label is one of the two
\* labels that meet there
ByIntegersOffThresholds(wk, rosE, rosF, label) ==
    LET n == Fifty(wk, rosE, rosF)
    IN  IF n \in {50, 25, -15, -40}
        THEN label \in {LabelOfFifty(n - 1), LabelOfFifty(n + 1)}
        ELSE label = LabelOfFifty(n)

\* C18 (as stated): each side's label is Strong Accept when the score is at
\* least 1.0, Lean Accept from 0.5, Neutral above -0.3, Lean Decline above
\* -0.8 and Strong Decline otherwise, the score being weekly/5 + max(ROS)/50,
\* that is, 10 * weekly + ros against 50, 25, -15 and -40; and the label never
\* gets worse when a gain increases.
C18_LabelByExactScore ==
    trade.shown =>
        /\ ByIntegers(trade.A_gain_wk, trade.A_gain_rosE, trade.A_gain_rosF,
                      trade.a_verdict)
        /\ ByIntegers(trade.B_gain_wk, trade.B_gain_rosE, trade.B_gain_rosF,
                      trade.b_verdict)
        /\ NeverWorse(trade.A_gain_wk, trade.A_gain_rosE, trade.A_gain_rosF,
                      trade.a_verdict)
        /\ NeverWorse(trade.B_gain_wk, trade.B_gain_rosE, trade.B_gain_rosF,
                      trade.b_verdict)
\* C18 (amended): each side's label is the label of 10 * weekly + ros against
\* 50, 25, -15 and -40 whenever 10 * weekly + ros is none of the four values;
\* on one of them the rounding of the two quotients decides between the two
\* labels that meet there; the label never gets worse when a gain increases.
C18_LabelByComputedScore ==
    trade.shown =>
        /\ ByIntegersOffThresholds(trade.A_gain_wk, trade.A_gain_rosE,
                                   trade.A_gain_rosF, trade.a_verdict)
        /\ ByIntegersOffThresholds(trade.B_gain_wk, trade.B_gain_rosE,
                                   trade.B_gain_rosF, trade.b_verdict)
        /\ NeverWorse(trade.A_gain_wk, trade.A_gain_rosE, trade.A_gain_rosF,
                      trade.a_verdict)
        /\ NeverWorse(trade.B_gain_wk, trade.B_gain_rosE, trade.B_gain_rosF,
                      trade.b_verdict)
\* team A's gains are worth exactly 1.0 (weekly -2, ROS 70) and the computed
\* score, 0.9999999999999999, makes it a Lean Accept; team B is a Strong
\* Decline
C18_Witness ==
    /\ trade.shown
    /\ Fifty(trade.A_gain_wk, trade.A_gain_rosE, trade.A_gain_rosF) = 50
    /\ trade.a_verdict = "Lean Accept"
    /\ trade.b_verdict = "Strong Decline"

\* ------------------------------------------------------- vocabulary of C24
DeclineVerdicts == {"Lean Decline", "Strong Decline"}
AcceptVerdicts == {"Lean Accept", "Strong Accept"}
\* IEEE-754 double evaluation of a_score + b_score, a_score being
\* wk / 5.0 + rosA / 50.0 and b_score (-wk) / 5.0 + rosB / 50.0: the triples
\* <<wk, rosA, rosB>> of the input domain for which the sum of the two
\* doubles is not the double (rosA + rosB) / 50
ScoreSumInexact ==
    {<<-4, -35, 70>>, <<-4, 0, 70>>, <<-4, 70, 35>>, <<-3, -35, 70>>,
     <<-3, 0, 35>>, <<-3, 70, 35>>, <<-2, -35, 70>>, <<-2, 0, 35>>,
     <<-2, 35, 70>>, <<-1, 35, 70>>, <<-1, 70, 35>>, <<0, 35, 70>>,
     <<0, 70, 35>>, <<1, 35, 70>>, <<1, 70, 35>>, <<2, 35, 0>>,
     <<2, 70, -35>>, <<2, 70, 35>>, <<3, 35, 0>>, <<3, 35, 70>>,
     <<3, 70, -35>>, <<4, 35, 70>>, <<4, 70, -35>>, <<4, 70, 0>>}
\* max and min of team A's two ROS gains
RosSpread ==
    MaxOfTwo(trade.A_gain_rosE, trade.A_gain_rosF) -
    MinOfTwo(trade.A_gain_rosE, trade.A_gain_rosF)
\* the two scores as fiftieths add up to the spread of A's ROS gains
FiftiethsSumToSpread ==
    /\ trade.a_score.num + trade.b_score.num = RosSpread
    /\ RosSpread >= 0
\* the two computed scores add up to the double RosSpread / 50
DoublesSumToSpread ==
    <<trade.A_gain_wk,
      MaxOfTwo(trade.A_gain_rosE, trade.A_gain_rosF),
      MaxOfTwo(trade.B_gain_rosE, trade.B_gain_rosF)>> \notin ScoreSumInexact
NotBothDecline ==
    ~(trade.a_verdict \in DeclineVerdicts /\ trade.b_verdict \in DeclineVerdicts)

\* C24 (as stated): the two verdict scores sum to (max - min) / 50 of team
\* A's two ROS gains, which is never negative, and the two teams never both
\* get a Decline verdict.
C24_ScoresSumToSpread ==
    trade.shown =>
        /\ FiftiethsSumToSpread
        /\ DoublesSumToSpread
        /\ NotBothDecline
\* C24 (amended): the two verdict scores, taken exactly as
\* (10 * weekly + ros) / 50, sum to (max - min) / 50 of team A's two ROS
\* gains, which is never negative (the computed doubles can miss that sum by
\* rounding), and the two teams never both get a Decline verdict.
C24_ExactScoresSumToSpread ==
    trade.shown => (FiftiethsSumToSpread /\ NotBothDecline)
\* the two ROS sources disagree about who gains and both teams get an Accept
\* verdict
C24_Witness ==
    /\ trade.shown
    /\ trade.A_gain_rosE # trade.A_gain_rosF
    /\ trade.a_verdict \in AcceptVerdicts
    /\ trade.b_verdict \in AcceptVerdicts

\* =========================================================================
\* One run of the script: credentials, upstream calls and their exceptions
\* =========================================================================
\* An upstream call either returns or raises; which one is chosen when the
\* call is made.  A call site is named by its call and the position it is
\* made for ("" when it is made for no position).

\* ------------------------------------------------------- program constants
\* pos_list of fetch_all_fantasypros_weekly
PosList == <<"qb", "rb", "wr", "te", "k", "dst">>
\* positions_to_scan of the Free Agents tab
PositionsToScan == <<"QB", "RB", "WR", "TE", "K", "D/ST">>
\* a table the projections site returned
FetchedFrame ==
    [player_col |-> TRUE,
     rows |-> <<[Player |-> <<"A">>, FPTS |-> [numeric |-> TRUE, n |-> MaxProj]]>>]
Site(call, pos) == [call |-> call, pos |-> pos]

\* ------------------------------------------------------------ input domains
\* a credential of the secrets: missing or empty (the default ""), or set
Credentials == {"", "token"}

\* ----------------------------------------------------------- the functions
\* the test with "and" in place of "or"
CredentialsBothMissing(s2, sw) == s2 = "" /\ sw = ""
\* if not espn_s2 or not swid
CredentialsMissing(s2, sw) == s2 = "" \/ sw = ""

\* -------------------------------------------------------- the state machine
InitRun ==
    /\ espn_s2 \in Credentials
    /\ swid \in Credentials
    /\ run_pc = "connect"
    /\ league = "none"
    /\ optimizer_ran = FALSE
    /\ fa_pos = 1
    /\ espn_counts = <<>>
    /\ performance_log = PriorLog
    /\ raised = {}
    /\ messages = {}
    /\ OptimizerIdle
    /\ ResolverIdle
    /\ FreeAgentIdle
    /\ TradeIdle
    /\ LogIdle
    /\ TabIdle

\* connect_league: st.error and st.stop() without credentials, otherwise
\* League(...), which is not inside a try
ConnectLeague ==
    /\ run_pc = "connect"
    /\ IF CredentialsMissing(espn_s2, swid)
       THEN /\ messages' = messages \cup {Site("credentials", "")}
            /\ run_pc' = "stopped"
            /\ UNCHANGED <<league, raised>>
       ELSE \E raises \in BOOLEAN :
               IF raises
               THEN /\ raised' = raised \cup {Site("League", "")}
                    /\ run_pc' = "aborted"
                    /\ UNCHANGED <<league, messages>>
               ELSE /\ league' = "connected"
                    /\ run_pc' = "fetch"
                    /\ UNCHANGED <<raised, messages>>
    /\ UNCHANGED <<espn_s2, swid, optimizer_ran, fa_pos, espn_counts,
                   performance_log, fp_weekly>>
    /\ UNCHANGED notRun

\* fetch_all_fantasypros_weekly: every position is fetched inside a try; a
\* fetch that raises gives a warning and an empty DataFrame
FetchWeekly ==
    /\ run_pc = "fetch"
    /\ \E failing \in SUBSET Range(PosList) :
          /\ fp_weekly' = [pos \in Range(PosList) |->
                              IF pos \in failing THEN EmptyFrame ELSE FetchedFrame]
          /\ raised' = raised \cup {Site("fp weekly", pos) : pos \in failing}
          /\ messages' = messages \cup {Site("fp weekly", pos) : pos \in failing}
    /\ run_pc' = "optimizer"
    /\ UNCHANGED <<espn_s2, swid, league, optimizer_ran, fa_pos, espn_counts,
                   performance_log>>
    /\ UNCHANGED notRun

\* the Optimizer tab calls build_optimizer
OptimizerTab ==
    /\ run_pc = "optimizer"
    /\ optimizer_ran' = TRUE
    /\ run_pc' = "matchups"
    /\ UNCHANGED <<espn_s2, swid, league, fa_pos, espn_counts, performance_log,
                   raised, messages, fp_weekly>>
    /\ UNCHANGED notRun

\* the Matchups tab: "for m in league.box_scores()" is not inside a try
MatchupsTab ==
    /\ run_pc = "matchups"
    /\ \E raises \in BOOLEAN :
          IF raises
          THEN /\ raised' = raised \cup {Site("box_scores", "")}
               /\ run_pc' = "aborted"
          ELSE /\ run_pc' = "free agents"
               /\ UNCHANGED raised
    /\ UNCHANGED <<espn_s2, swid, league, optimizer_ran, fa_pos, espn_counts,
                   performance_log, messages, fp_weekly>>
    /\ UNCHANGED notRun

\* one pass of "for pos in positions_to_scan" up to espn_counts[pos]: the
\* inner except retries for D/ST only and otherwise leaves fa_list empty; the
\* outer except, which warns, is reached only when the retry raises
FreeAgentFetch ==
    /\ run_pc = "free agents"
    /\ LET pos == PositionsToScan[fa_pos]
       IN  \E first_raises \in BOOLEAN, retry_raises \in BOOLEAN :
              /\ first_raises \/ ~retry_raises
              /\ (pos # "D/ST") => ~retry_raises
              /\ raised' = IF first_raises
                           THEN raised \cup {Site("free_agents", pos)} ELSE raised
              /\ messages' = IF retry_raises
                             THEN messages \cup {Site("free_agents", pos)}
                             ELSE messages
              /\ espn_counts' =
                    Append(espn_counts,
                           IF ~first_raises \/ (pos = "D/ST" /\ ~retry_raises)
                           THEN 1 ELSE 0)
    /\ fa_pos' = fa_pos + 1
    /\ run_pc' = IF fa_pos = Len(PositionsToScan) THEN "logs" ELSE run_pc
    /\ UNCHANGED <<espn_s2, swid, league, optimizer_ran, performance_log,
                   fp_weekly>>
    /\ UNCHANGED notRun

(***************************************************************************)
(* The performance log.  The file holds texts; pd.read_csv turns them into *)
(* values, pd.concat puts the new row under the rows read, and to_csv      *)
(* turns the values back into texts.  A value is written here as the text  *)
(* to_csv gives it, and a missing value as NaN.                            *)
(***************************************************************************)
NaN == "<NaN>"
\* texts read_csv reads as a missing value by default
NaStrings == {"", "NA", "N/A", "NULL", "null", "NaN", "nan", "None", "n/a"}
\* texts read_csv reads as an integer, and as a float
IntTexts == {"1", "2", "7", "007"}
FloatTexts == {"0.0", "12.5", "1.0", "2.0", "7.0"}
IntOf(text) == IF text = "007" THEN "7" ELSE text
FloatOf(text) ==
    CASE text = "1" -> "1.0"
      [] text = "2" -> "2.0"
      [] text \in {"7", "007"} -> "7.0"
      [] OTHER -> text

\* what the button's block is given: league.current_week, my_team.team_name
\* and the sums over the roster
Weeks == {"1", "2"}
TeamNames == {"Bears", "NA", "007"}
LogTotals == {"0.0", "12.5"}
LogRows ==
    [week : Weeks, weekly : LogTotals, ros : LogTotals]

HasColumn(columns, name) == \E c \in 1..Len(columns) : columns[c] = name
ColumnIndex(columns, name) ==
    CHOOSE c \in 1..Len(columns) : columns[c] = name

\* the dtype read_csv infers for column c of the file
ColumnKind(file, c) ==
    LET texts == {file.rows[r][c] : r \in 1..Len(file.rows)}
    IN  IF texts \subseteq IntTexts
        THEN "int64"
        ELSE IF (texts \ NaStrings) \subseteq (IntTexts \cup FloatTexts)
             THEN "float64"
             ELSE "object"
ReadValue(kind, text) ==
    IF text \in NaStrings
    THEN NaN
    ELSE CASE kind = "int64" -> IntOf(text)
           [] kind = "float64" -> FloatOf(text)
           [] OTHER -> text
read_csv(file) ==
    [columns |-> file.columns,
     rows |-> [r \in 1..Len(file.rows) |->
                 [c \in 1..Len(file.columns) |->
                     ReadValue(ColumnKind(file, c), file.rows[r][c])]]]

\* f"Projected (Weekly: {proj_source})"
WeeklyColumn(source) ==
    CASE source = "ESPN only" -> "Projected (Weekly: ESPN only)"
      [] source = "FantasyPros fallback" ->
            "Projected (Weekly: FantasyPros fallback)"
      [] OTHER -> "Projected (Weekly: FantasyPros only)"
\* pd.DataFrame([row]): the keys of the dict in their order, one row
DataFrame(team, source, row) ==
    [columns |-> <<"Week", "Team", WeeklyColumn(source),
                   "Projected (ROS ESPN)", "Projected (ROS FP)", "Points">>,
     rows |-> << <<row.week, team, row.weekly, row.ros, row.ros, "0.0">> >>]

\* pd.concat([old, df], ignore_index=True): the columns of old, then the
\* columns only df has; a frame without a column holds NaN in it.  The one
\* column a frame can lack is a weekly total, which is a float already.
RowUnder(frame, r, columns) ==
    [c \in 1..Len(columns) |->
        IF HasColumn(frame.columns, columns[c])
        THEN frame.rows[r][ColumnIndex(frame.columns, columns[c])]
        ELSE NaN]
concat(old, df) ==
    LET columns ==
            old.columns \o
            SelectSeq(df.columns, LAMBDA name : ~HasColumn(old.columns, name))
    IN  [columns |-> columns,
         rows |-> [r \in 1..Len(old.rows) |-> RowUnder(old, r, columns)] \o
                  [r \in 1..Len(df.rows) |-> RowUnder(df, r, columns)]]

\* df.to_csv(log_file, index=False): NaN is written as the empty text
WriteCell(value) == IF value = NaN THEN "" ELSE value
to_csv(frame) ==
    [exists |-> TRUE,
     columns |-> frame.columns,
     rows |-> [r \in 1..Len(frame.rows) |->
                 [c \in 1..Len(frame.columns) |->
                     WriteCell(frame.rows[r][c])]]]

\* the frame the block writes when it read old (os.path.exists and read_csv)
FrameToWrite(read, old, df) == IF read THEN concat(old, df) ELSE df
\* the block of the button in one piece
LogThisWeek(file, team, source, row) ==
    to_csv(FrameToWrite(file.exists, read_csv(file),
                        DataFrame(team, source, row)))

\* the Logs tab: with the button pressed the file is read, the new row put
\* after the rows read, and the file written
LogsTab ==
    /\ run_pc = "logs"
    /\ \E pressed \in BOOLEAN, row \in LogRows :
          performance_log' = IF pressed
                             THEN LogThisWeek(performance_log, "Bears",
                                              proj_source, row)
                             ELSE performance_log
    /\ run_pc' = "end"
    /\ UNCHANGED <<espn_s2, swid, league, optimizer_ran, fa_pos, espn_counts,
                   raised, messages, fp_weekly>>
    /\ UNCHANGED notRun

NextRun ==
    \/ ConnectLeague
    \/ FetchWeekly
    \/ OptimizerTab
    \/ MatchupsTab
    \/ FreeAgentFetch
    \/ LogsTab

SpecRun == InitRun /\ [][NextRun]_vars

\* C19: with espn_s2 or swid missing or empty, connect_league shows an error
\* and halts the run before the League client is constructed: no league and
\* no projection table is fetched, the optimizer is not run and nothing is
\* written to the performance log.
C19_NoCredentialsHaltsRun ==
    (espn_s2 = "" \/ swid = "") =>
        /\ run_pc \in {"connect", "stopped"}
        /\ run_pc = "stopped" => Site("credentials", "") \in messages
        /\ league = "none"
        /\ fp_weekly = <<>>
        /\ ~optimizer_ran
        /\ performance_log = PriorLog
        /\ raised = {}
\* a run halted with one of the two credentials set
C19_Witness ==
    /\ run_pc = "stopped"
    /\ espn_s2 = "token" /\ swid = ""
    /\ Site("credentials", "") \in messages

\* C20: every exception of an upstream data call is caught at its call site,
\* gives a message, and the run continues with empty or default data: no run
\* is aborted and no exception is swallowed without a message.
C20_UpstreamExceptionsCaught ==
    /\ run_pc # "aborted"
    /\ \A site \in raised : site \in messages

(***************************************************************************)
(* The Logs tab used by one operator: script runs one after another, each  *)
(* with the source the sidebar shows, the button pressed in some of them.  *)
(***************************************************************************)
MaxLogs == 2

InitLog ==
    /\ team_name \in TeamNames
    /\ performance_log \in {NoFile, PriorLog}
    /\ log_before = performance_log
    /\ logged = 0
    /\ sessions = <<>>
    /\ proj_source \in ProjSources
    /\ OptimizerIdle
    /\ ResolverCallIdle
    /\ FreeAgentIdle
    /\ TradeIdle
    /\ RunStepIdle
    /\ TabIdle

\* a run with the button pressed: lines 920-937 in one piece
LogPressed ==
    /\ logged < MaxLogs
    /\ \E source \in ProjSources, row \in LogRows :
          /\ proj_source' = source
          /\ performance_log' =
                LogThisWeek(performance_log, team_name, source, row)
    /\ logged' = logged + 1
    /\ UNCHANGED <<team_name, log_before, sessions>>
    /\ UNCHANGED notLog

\* a run in which the button is not pressed
RunNotPressed ==
    /\ \E source \in ProjSources : proj_source' = source
    /\ UNCHANGED <<performance_log, logVars>>
    /\ UNCHANGED notLog

NextLog == LogPressed \/ RunNotPressed
SpecLog == InitLog /\ [][NextLog]_vars

\* every row of before is in after at the same place with the same text in
\* every column before had, and after has one row more
AppendedOne(before, after) ==
    /\ after.exists
    /\ Len(after.rows) = Len(before.rows) + 1
    /\ \A r \in 1..Len(before.rows), c \in 1..Len(before.columns) :
          /\ HasColumn(after.columns, before.columns[c])
          /\ after.rows[r][ColumnIndex(after.columns, before.columns[c])] =
                before.rows[r][c]

\* C21: a "Log This Week" action leaves every row the file held unchanged
\* and in place and adds exactly one row at the end; a run without the
\* button leaves the file as it was
C21_AppendOnly ==
    [][IF logged' = logged + 1
       THEN AppendedOne(performance_log, performance_log')
       ELSE performance_log' = performance_log]_vars

(***************************************************************************)
(* Two script runs inside the button's block at once (two browser          *)
(* sessions of the one server process): each reads the file and later      *)
(* writes the frame it made, with nothing held between the two steps.      *)
(***************************************************************************)
Sessions == {1, 2}
NoFrame == [columns |-> <<>>, rows |-> <<>>]

InitLogRace ==
    /\ team_name \in TeamNames
    /\ performance_log \in {NoFile, PriorLog}
    /\ log_before = performance_log
    /\ logged = 0
    /\ sessions \in [Sessions -> [pc : {"pressed"}, source : ProjSources,
                                  row : LogRows, read : {FALSE},
                                  old : {NoFrame}]]
    /\ OptimizerIdle
    /\ ResolverIdle
    /\ FreeAgentIdle
    /\ TradeIdle
    /\ RunStepIdle
    /\ TabIdle

\* lines 932-933: os.path.exists(log_file) and pd.read_csv(log_file)
ReadLog(s) ==
    /\ sessions[s].pc = "pressed"
    /\ sessions' = [sessions EXCEPT
                      ![s].pc = "read",
                      ![s].read = performance_log.exists,
                      ![s].old = IF performance_log.exists
                                 THEN read_csv(performance_log)
                                 ELSE NoFrame]
    /\ UNCHANGED <<performance_log, proj_source, team_name, log_before, logged>>
    /\ UNCHANGED notLog

\* lines 934-935: pd.concat([old, df]) and df.to_csv(log_file)
WriteLog(s) ==
    /\ sessions[s].pc = "read"
    /\ performance_log' =
          to_csv(FrameToWrite(sessions[s].read, sessions[s].old,
                              DataFrame(team_name, sessions[s].source,
                                        sessions[s].row)))
    /\ sessions' = [sessions EXCEPT ![s].pc = "done"]
    /\ logged' = logged + 1
    /\ UNCHANGED <<proj_source, team_name, log_before>>
    /\ UNCHANGED notLog

NextLogRace == \E s \in Sessions : ReadLog(s) \/ WriteLog(s)
SpecLogRace == InitLogRace /\ [][NextLogRace]_vars

BothDone == \A s \in Sessions : sessions[s].pc = "done"

\* C27: when both concurrent "Log This Week" actions have finished, the
\* file holds every row it held before them and the two new rows
C27_RaceKeepsBothRows ==
    (DOMAIN sessions = Sessions /\ BothDone) =>
        Len(performance_log.rows) = Len(log_before.rows) + 2

(***************************************************************************)
(* build_optimizer as the tabs call it: with the requirement map of the    *)
(* sidebar, whose keys are always QB, RB, WR, TE, FLEX, D/ST and K in this *)
(* order.                                                                  *)
(***************************************************************************)
\* starting_slots of the sidebar; the counts are values the number inputs
\* allow (QB, RB, WR, TE from 1, FLEX, D/ST, K from 0)
AppSlotMaps ==
    {<< <<"QB", 1>>, <<"RB", rb>>, <<"WR", 1>>, <<"TE", 1>>, <<"FLEX", flex>>,
        <<"D/ST", 0>>, <<"K", 0>> >> :
        rb \in {1, 2}, flex \in {0, 1}}
\* rosters of up to three players: the positions that meet in FLEX, a
\* position that does not, and the position string FLEX
AppPositions == {"QB", "RB", "WR", "FLEX"}
AppProjections == {0, 1, 2}
AppPlayers == [position : AppPositions, proj : AppProjections]
AppRosters == UNION {[1..n -> AppPlayers] : n \in {0, 1, 2, 3}}

InitApp ==
    /\ roster \in AppRosters
    /\ starting_slots \in AppSlotMaps
    /\ groups = [key \in Slots |-> <<>>]
    /\ used = {}
    /\ lineup = <<>>
    /\ bench = <<>>
    /\ pc = "start"
    /\ next_slot = 1
    /\ prev = NoResult
    /\ ResolverIdle
    /\ FreeAgentIdle
    /\ TradeIdle
    /\ RunIdle
    /\ LogIdle
    /\ TabIdle

SpecApp == InitApp /\ [][Next]_vars

WhatIfPlayers ==
    [position : {"RB", "WR", "FLEX"}, proj : {0, 1}, re : {0}, rf : {0, 1}]
WhatIfRosters == UNION {[1..n -> WhatIfPlayers] : n \in {1, 2, 3}}
\* the free agent picked: of a position the roster lacks, or of one it has
WhatIfFreeAgents == [position : {"QB", "RB"}, w : {0, 1, 2}, re : {0}, rf : {0}]
\* the free agent as a player of a roster
AsPlayer(agent) ==
    [position |-> agent.position, proj |-> agent.w, re |-> agent.re,
     rf |-> agent.rf]

\* for slot, count in starting_slots.items(): ... with the locals passed on
RECURSIVE FillSlots(_, _, _, _, _)
FillSlots(g, m, k, u, lu) ==
    IF k > Len(m) THEN [lineup |-> lu, used |-> u]
    ELSE LET got == FillFrom(g[m[k][1]], 1, m[k][2], u, <<>>)
         IN  FillSlots(g, m, k + 1, u \cup Range(got), Append(lu, got))
\* build_optimizer(roster, starting_slots) from entry to return
build_optimizer(r, m) ==
    LET filled == FillSlots(BuildGroupsOf(r), m, 1, {}, <<>>)
    IN  [lineup |-> filled.lineup, bench |-> BenchOf(r, filled.used)]

\* (get_ros_fp(p), get_proj_week(p)) of a is below that of b
PairBelow(r, a, b) ==
    \/ r[a].rf < r[b].rf
    \/ (r[a].rf = r[b].rf /\ WeekProj(r, a) < WeekProj(r, b))
\* sorted(pool, key=...)[0] with the pair taken the other way round
LowestOfWeeklyFirst(r, pool) ==
    LET lowest == {a \in Range(pool) :
                      \A b \in Range(pool) :
                          ~(\/ WeekProj(r, b) < WeekProj(r, a)
                            \/ (WeekProj(r, b) = WeekProj(r, a) /\ r[b].rf < r[a].rf))}
    IN  pool[CHOOSE j \in DOMAIN pool :
                /\ pool[j] \in lowest
                /\ \A h \in DOMAIN pool : pool[h] \in lowest => j <= h]
\* sorted(pool, key=lambda p: (get_ros_fp(p), get_proj_week(p)))[0]: the sort
\* is stable, so of the players with the lowest pair the first of pool
LowestOf(r, pool) ==
    LET lowest == {a \in Range(pool) :
                      \A b \in Range(pool) : ~PairBelow(r, b, a)}
    IN  pool[CHOOSE j \in DOMAIN pool :
                /\ pool[j] \in lowest
                /\ \A h \in DOMAIN pool : pool[h] \in lowest => j <= h]
\* _total(lineup)[0]: the weekly total of a lineup over roster r
TotalWeekly(r, lu) ==
    LET RECURSIVE From(_)
        From(k) == IF k > Len(lu) THEN 0 ELSE SumProj(r, lu[k], 1) + From(k + 1)
    IN  From(1)

InitWhatIf ==
    /\ roster \in WhatIfRosters
    /\ starting_slots \in AppSlotMaps
    /\ fa \in WhatIfFreeAgents
    /\ drop_sel \in 0..Len(roster)
    /\ groups = [key \in Slots |-> <<>>]
    /\ used = {}
    /\ lineup = <<>>
    /\ bench = <<>>
    /\ pc = "idle"
    /\ next_slot = 1
    /\ prev = NoResult
    /\ drop_cand = [present |-> FALSE, w |-> 0, re |-> 0, rf |-> 0]
    /\ weekly_threshold = 0
    /\ ros_threshold = 0
    /\ starters_by_pos = <<>>
    /\ flex_starters = <<>>
    /\ fa_row = NoRow
    /\ rows = NoMarginRows
    /\ dropped = 0
    /\ hypo_roster = <<>>
    /\ cur_lineup = <<>>
    /\ new_lineup = <<>>
    /\ ResolverIdle
    /\ TradeIdle
    /\ RunIdle
    /\ LogIdle

\* the What-If tab once a free agent is picked (lines 1343-1363); the names
\* of the roster players are distinct, so a name chosen finds its player
WhatIf ==
    /\ dropped = 0
    /\ LET current == build_optimizer(roster, starting_slots)
           pool == IF current.bench # <<>>
                   THEN current.bench
                   ELSE [i \in 1..Len(roster) |-> i]
           drop == IF drop_sel = 0 THEN LowestOf(roster, pool) ELSE drop_sel
           hypo == [j \in 1..(Len(roster) - 1) |->
                       IF j < drop THEN roster[j] ELSE roster[j + 1]]
                   \o <<AsPlayer(fa)>>
       IN  /\ lineup' = current.lineup
           /\ bench' = current.bench
           /\ dropped' = drop
           /\ hypo_roster' = hypo
           /\ cur_lineup' = build_optimizer(roster, starting_slots).lineup
           /\ new_lineup' = build_optimizer(hypo, starting_slots).lineup
    /\ UNCHANGED <<roster, starting_slots, groups, used, pc, next_slot, prev>>
    /\ UNCHANGED <<freeAgentVars, rows, drop_sel>>
    /\ UNCHANGED notTab

NextWhatIf == WhatIf
SpecWhatIf == InitWhatIf /\ [][NextWhatIf]_vars

\* the roster without the player at place d, in its order
Without(r, d) == SelectSeq([i \in 1..Len(r) |-> i], LAMBDA i : i # d)

\* C25: with the automatic drop choice and a non-empty bench the dropped
\* player is the bench player with the lowest (ROS FP, weekly) pair, the
\* hypothetical roster is the roster with that player replaced by the free
\* agent, and the weekly total of the re-optimized lineup is not below that
\* of the current lineup.
C25_WhatIfNeverLowers ==
    (dropped # 0 /\ drop_sel = 0 /\ bench # <<>>) =>
        /\ dropped \in Range(bench)
        /\ dropped \notin UsedIn(lineup)
        /\ \A b \in Range(bench) : ~PairBelow(roster, b, dropped)
        /\ Len(hypo_roster) = Len(roster)
        /\ \A j \in 1..(Len(roster) - 1) :
              hypo_roster[j] = roster[Without(roster, dropped)[j]]
        /\ hypo_roster[Len(roster)] = AsPlayer(fa)
        /\ cur_lineup = lineup
        /\ TotalWeekly(hypo_roster, new_lineup) >= TotalWeekly(roster, cur_lineup)

\* C25 witness: two bench players, the one with the lower pair is dropped,
\* and the free agent raises the weekly total
C25_Witness ==
    /\ dropped # 0 /\ drop_sel = 0
    /\ \E b \in Range(bench) : PairBelow(roster, dropped, b)
    /\ TotalWeekly(hypo_roster, new_lineup) > TotalWeekly(roster, cur_lineup)

(***************************************************************************)
(* The drop candidate of the Free Agents tab (_lowest_bench_candidate) and *)
(* of the Waiver tab (_lowest_drop_candidate), chosen from the bench of    *)
(* build_optimizer(my_roster, starting_slots) for the position scanned.    *)
(***************************************************************************)
DropPlayers ==
    [position : {"QB", "RB", "WR"}, proj : {0, 1}, re : {0}, rf : {0, 1}]
DropRosters == UNION {[1..n -> DropPlayers] : n \in {0, 1, 2, 3}}
\* a free agent of the position scanned, a position with a slot of its own
\* only or a flex-eligible one
DropFreeAgents == [position : {"QB", "RB"}, w : {0, 1}, re : {0}, rf : {0, 1}]

\* the players of list s, in its order, whose position is in posSet
AtPositions(r, s, posSet) == SelectSeq(s, LAMBDA i : PositionOf(r, i) \in posSet)
\* pool of _lowest_bench_candidate and of _lowest_drop_candidate
DropPool(r, b, position) ==
    LET same_pos == AtPositions(r, b, {position})
    IN  IF same_pos # <<>> THEN same_pos
        ELSE IF _is_flex_eligible(position)
             THEN AtPositions(r, b, FlexEligible)
             ELSE <<>>
\* _lowest_bench_candidate with the roster as the list to choose from
_lowest_bench_candidate_FromRoster(r, b, position) ==
    LET pool == DropPool(r, [i \in 1..Len(r) |-> i], position)
    IN  IF pool = <<>> THEN 0 ELSE LowestOf(r, pool)
\* _lowest_bench_candidate(position): the place of cand in the roster, 0 for
\* None
_lowest_bench_candidate(r, b, position) ==
    LET pool == DropPool(r, b, position)
    IN  IF pool = <<>> THEN 0 ELSE LowestOf(r, pool)
\* _lowest_drop_candidate(position)
_lowest_drop_candidate(r, b, position) ==
    LET pool == DropPool(r, b, position)
    IN  IF pool = <<>> THEN 0 ELSE LowestOf(r, pool)
\* the weekly projections of a list of players
ProjectionsOf(r, s) == [j \in 1..Len(s) |-> WeekProj(r, s[j])]
\* lineup.get(slot, [])
LineupGet(m, lu, slot) ==
    IF HasSlot(m, slot) THEN lu[CHOOSE k \in DOMAIN m : m[k][1] = slot] ELSE <<>>

InitDrop ==
    /\ roster \in DropRosters
    /\ starting_slots \in AppSlotMaps
    /\ fa \in DropFreeAgents
    /\ weekly_threshold = 1
    /\ ros_threshold = 1
    /\ groups = [key \in Slots |-> <<>>]
    /\ used = {}
    /\ lineup = <<>>
    /\ bench = <<>>
    /\ pc = "idle"
    /\ next_slot = 1
    /\ prev = NoResult
    /\ drop_cand = [present |-> FALSE, w |-> 0, re |-> 0, rf |-> 0]
    /\ starters_by_pos = <<>>
    /\ flex_starters = <<>>
    /\ fa_row = NoRow
    /\ ResolverIdle
    /\ TradeIdle
    /\ RunIdle
    /\ LogIdle
    /\ TabIdle

\* lines 691-695 and one pass of "for fa in fa_list" for the position
\* scanned, which is the position of the free agents fetched for it
FreeAgentRowFromBench ==
    /\ ~fa_row.appended
    /\ LET current == build_optimizer(roster, starting_slots)
           cand == _lowest_bench_candidate(roster, current.bench, fa.position)
           candidate == IF cand = 0
                        THEN [present |-> FALSE, w |-> 0, re |-> 0, rf |-> 0]
                        ELSE [present |-> TRUE, w |-> WeekProj(roster, cand),
                              re |-> roster[cand].re, rf |-> roster[cand].rf]
           by_pos == [k \in NamedSlots |->
                         ProjectionsOf(roster,
                                       LineupGet(starting_slots, current.lineup, k))]
           flex == ProjectionsOf(roster,
                                 LineupGet(starting_slots, current.lineup, "FLEX"))
       IN  /\ lineup' = current.lineup
           /\ bench' = current.bench
           /\ starters_by_pos' = by_pos
           /\ flex_starters' = flex
           /\ dropped' = cand
           /\ drop_cand' = candidate
           /\ fa_row' = RowOf(fa, candidate, weekly_threshold, ros_threshold,
                              by_pos, flex)
    /\ UNCHANGED <<roster, starting_slots, groups, used, pc, next_slot, prev>>
    /\ UNCHANGED <<fa, weekly_threshold, ros_threshold>>
    /\ UNCHANGED <<rows, drop_sel, hypo_roster, cur_lineup, new_lineup>>
    /\ UNCHANGED notTab

NextDrop == FreeAgentRowFromBench
SpecDrop == InitDrop /\ [][NextDrop]_vars

\* d is a player of pool and no player of pool has a lower (ROS FP, weekly)
\* pair
LowestIn(d, pool) ==
    d \in pool /\ \A b \in pool : ~PairBelow(roster, b, d)
BenchAt(posSet) == {b \in Range(bench) : PositionOf(roster, b) \in posSet}

\* C26: the drop candidate for a free agent at position P is a bench player,
\* never a starter: the bench player at P with the lowest (ROS FP, weekly)
\* pair; with no bench player at P and P one of RB, WR, TE the lowest bench
\* player among RB/WR/TE; with neither there is no candidate, the verdict is
\* "No roster spot to drop" and the three deltas are 0.  The Waiver tab's
\* choice is the same.
C26_DropCandidateFromBench ==
    fa_row.appended =>
        LET P == fa.position
            fallback == IF P \in FlexPositions THEN BenchAt(FlexPositions) ELSE {}
        IN  /\ dropped # 0 =>
                  dropped \in Range(bench) /\ dropped \notin UsedIn(lineup)
            /\ BenchAt({P}) # {} => LowestIn(dropped, BenchAt({P}))
            /\ (BenchAt({P}) = {} /\ fallback # {}) => LowestIn(dropped, fallback)
            /\ (BenchAt({P}) = {} /\ fallback = {}) =>
                  /\ dropped = 0
                  /\ fa_row.verdict = "No roster spot to drop"
                  /\ fa_row.delta_w = 0 /\ fa_row.delta_re = 0 /\ fa_row.delta_rf = 0
            /\ dropped = 0 => fa_row.verdict = "No roster spot to drop"
            /\ _lowest_drop_candidate(roster, bench, P) = dropped

\* C26 witness: no RB on the bench, so the candidate for an RB is the lower
\* of two bench WRs, while a WR with a still lower pair starts
C26_Witness ==
    /\ fa_row.appended /\ fa.position = "RB"
    /\ BenchAt({"RB"}) = {}
    /\ dropped # 0 /\ PositionOf(roster, dropped) = "WR"
    /\ \E b \in BenchAt({"WR"}) : PairBelow(roster, dropped, b)
    /\ \E i \in UsedIn(lineup) :
          PositionOf(roster, i) = "WR" /\ PairBelow(roster, i, dropped)
====
